---- MODULE Spec2Model ----
(***************************************************************************)
(* The session-based V2 client of the TickTick SDK (TickTickV2Client):     *)
(* the authentication state it holds through its session handler, and the  *)
(* HTTP requests each of its methods issues.                               *)
(*                                                                         *)
(* A state records the client's fields (device id, auth state), the clock  *)
(* the expiry hint of a session token is measured against, and the last    *)
(* method invocation: its name and arguments (call), the requests it put   *)
(* on the wire in order (sent), and how it ended (outcome).                *)
(*                                                                         *)
(* Python values are represented by their JSON text where they are opaque  *)
(* payload ("0", "false", "[]", "X"); Python None is the text "null".      *)
(* A dict is a function from its keys; a list is a sequence.               *)
(***************************************************************************)
EXTENDS Integers, Sequences, FiniteSets, TLC

VARIABLES device_id, authState, now, failed2fa, call, sent, outcome, flight,
          service, tool, life

vars ==
    <<device_id, authState, now, failed2fa, call, sent, outcome, flight,
      service, tool, life>>

-----------------------------------------------------------------------------
(* Bounds of the model *)

\* the clock runs from 0 to MaxTime
MaxTime == 1
\* rejected 2FA codes counted up to MaxFailed (the count saturates there)
MaxFailed == 2
\* the lists handed to a batch method hold at most MaxBatchLen items
MaxBatchLen == 2
\* create_task / update_task are called with at most MaxSupplied optional
\* arguments supplied, or with all of them
MaxSupplied == 2
\* at most MaxInFlight requests of one client await their answer at a time
MaxInFlight == 2
\* other clients write to the task at most MaxOtherWrites times
MaxOtherWrites == 1
\* the tool is invoked at most MaxToolCalls times
MaxToolCalls == 1

-----------------------------------------------------------------------------
(* Values *)

None == "null"
EmptyDict == << >>
Put(d, k, v) == (k :> v) @@ d

\* device_id: supplied to the constructor, or generated by the handler
DeviceIds == {"dev-supplied", "dev-generated"}

\* the accounts of the service: what the sign-on endpoint answers for them
Credentials == {"good", "good-2fa", "bad"}
ValidCredentials == {"good", "good-2fa"}
TwoFactorAccounts == {"good-2fa"}
AuthIds == {"A1", "A2"}

\* SessionToken: cookies (in dict order), userId, inboxId, optional expiry
NoExpiry == -1
TokenIds == {"tok1", "tok2"}
TokenCookies(id) ==
    IF id = "tok1" THEN << <<"t", "c1">> >>
    ELSE IF id = "tok0" THEN << >>
    ELSE << <<"t", "c2">>, <<"AWSALB", "lb2">> >>
SessionToken(id, expiry) ==
    [cookies |-> TokenCookies(id), userId |-> "user-" \o id,
     inboxId |-> "inbox-" \o id, expiry |-> expiry]
Expiries == {NoExpiry} \cup (1..MaxTime)
Tokens == {SessionToken(id, e) : id \in TokenIds, e \in Expiries}
\* a token the service issues now is not expired yet
FreshTokens == {t \in Tokens : t.expiry = NoExpiry \/ t.expiry > now}

\* the sessions installed while requests are in flight
FlightTokens == {SessionToken(id, NoExpiry) : id \in TokenIds}

\* the sessions a caller can install, one of them with an empty cookie dict
HeaderTokens == {SessionToken(id, NoExpiry) : id \in TokenIds \cup {"tok0"}}

\* AuthState: Unauthenticated | PendingTwoFactor{authId} | Authenticated{token}
Unauthenticated == [tag |-> "Unauthenticated"]
PendingTwoFactor(a) == [tag |-> "PendingTwoFactor", authId |-> a]
Authenticated(t) == [tag |-> "Authenticated", token |-> t]

-----------------------------------------------------------------------------
(* Session handler properties, and the client properties that delegate *)

NoSession == [cookies |-> << >>, userId |-> None, inboxId |-> None,
              expiry |-> NoExpiry, none |-> TRUE]
IsNone(s) == "none" \in DOMAIN s

HandlerSession ==
    IF authState.tag = "Authenticated" THEN authState.token ELSE NoSession

Expired(t) == t.expiry # NoExpiry /\ now >= t.expiry

HandlerIsAuthenticated ==
    authState.tag = "Authenticated" /\ ~Expired(authState.token)

session == HandlerSession

is_authenticated_ignores_expiry == ~IsNone(session)
is_authenticated_inverted == ~HandlerIsAuthenticated
is_authenticated_when_pending ==
    authState.tag = "PendingTwoFactor" \/ HandlerIsAuthenticated
is_authenticated == HandlerIsAuthenticated

inbox_id == IF IsNone(session) THEN None ELSE session.inboxId

\* _get_x_device_header: json.dumps of the three fields, in this order
json_dumps(keys, d) == [keys |-> keys, dict |-> d]
x_device_header_per_session ==
    json_dumps(<<"platform", "version", "id">>,
               [platform |-> "web", version |-> 6430,
                id |-> IF IsNone(session) THEN device_id ELSE session.userId])
x_device_header ==
    json_dumps(<<"platform", "version", "id">>,
               [platform |-> "web", version |-> 6430, id |-> device_id])

V2_USER_AGENT == "Mozilla/5.0 (rv:145.0) Firefox/145.0"

\* the join keeping the first cookie only
cookie_join_first_only(cs) ==
    IF cs = << >> THEN "" ELSE cs[1][1] \o "=" \o cs[1][2]

\* "; ".join(f"{k}={v}" for k, v in cookies.items())
RECURSIVE cookie_join(_)
cookie_join(cs) ==
    IF cs = << >> THEN ""
    ELSE IF Len(cs) = 1 THEN cs[1][1] \o "=" \o cs[1][2]
    ELSE cs[1][1] \o "=" \o cs[1][2] \o "; " \o cookie_join(Tail(cs))

\* _get_auth_headers, by the two reads it makes of the handler's session:
\* present is the value tested against None, used the value whose cookies
\* are joined. Reading the cookies of None raises AttributeError, given
\* here as a dict with the one key error.
get_auth_headers_reads(present, used) ==
    IF ~IsNone(present)
    THEN IF IsNone(used) THEN [error |-> "AttributeError"]
         ELSE LET h1 == Put(EmptyDict, "User-Agent", V2_USER_AGENT)
                  h2 == Put(h1, "X-Device", x_device_header)
              IN  IF used.cookies # << >>
                  THEN Put(h2, "Cookie", cookie_join(used.cookies))
                  ELSE h2
    ELSE EmptyDict

\* the method has no await: both reads see the same session
get_auth_headers == get_auth_headers_reads(session, session)

-----------------------------------------------------------------------------
(* The request layer of the base client *)

\* what the service (or the network) answers to a request
Responses == {"ok", "401", "500", "network"}

ErrorOf(resp) ==
    CASE resp = "401" -> "AuthenticationError"
      [] resp = "500" -> "ServerError"
      [] OTHER -> "UnknownError"

HttpRequest(method, path, params, body) ==
    [method |-> method, path |-> path, params |-> params, body |-> body]

http_get_json(path, params) == HttpRequest("GET", path, params, None)
http_post_json(path, json_data) == HttpRequest("POST", path, EmptyDict, json_data)
http_put(path, json_data) == HttpRequest("PUT", path, EmptyDict, json_data)
http_delete(path, params) == HttpRequest("DELETE", path, params, None)

\* index of the first request of reqs that is not answered "ok", else Len+1
FirstFailure(resps) ==
    IF \E i \in DOMAIN resps : resps[i] # "ok"
    THEN CHOOSE i \in DOMAIN resps :
            resps[i] # "ok" /\ \A j \in 1..(i-1) : resps[j] = "ok"
    ELSE Len(resps) + 1

\* _request, for the requests a method issues one after the other: fail fast
\* when not authenticated; otherwise send each with the auth headers, once,
\* and raise the typed error of the first failure. A request on the wire is
\* recorded with the answer it got.
run_requests(reqs, resps) ==
    IF ~is_authenticated
    THEN [sent |-> << >>, outcome |-> "AuthenticationError"]
    ELSE LET k == FirstFailure(resps)
             n == IF k > Len(reqs) THEN Len(reqs) ELSE k
         IN  [sent |-> [i \in 1..n |->
                          reqs[i] @@ [headers |-> get_auth_headers,
                                      response |-> resps[i]]],
              outcome |-> IF k > Len(reqs) THEN "ok" ELSE ErrorOf(resps[k])]

\* no method is running: the caller is between two invocations
NoCall == [op |-> "none", args |-> EmptyDict]
Idle == call = NoCall
\* the arguments a caller can choose from: none while a method is running
WhenIdle(S) == IF Idle THEN S ELSE {}

\* the caller takes the result of the invocation
Return ==
    /\ ~Idle
    /\ call' = NoCall
    /\ sent' = << >>
    /\ outcome' = "none"
    /\ UNCHANGED <<life, device_id, authState, now, failed2fa, flight, service, tool>>

\* one invocation of a client method that issues the requests reqs
Invoke(op, args, reqs) ==
    /\ \E resps \in [1..Len(reqs) -> Responses] :
         LET r == run_requests(reqs, resps)
         IN  /\ sent' = r.sent
             /\ outcome' = r.outcome
    /\ call' = [op |-> op, args |-> args]
    /\ UNCHANGED <<life, device_id, authState, now, failed2fa, flight, service, tool>>

-----------------------------------------------------------------------------
(* Requests in flight: a request awaits its answer while other calls run *)

Flights == 1..MaxInFlight
NoFlight == [pc |-> "idle"]

\* the first part of _request, up to the await of the HTTP call: the
\* authentication check and the construction of the headers, in one step.
\* built_from remembers the session that was current during that step.
start_request_yields(r) ==
    /\ Idle
    /\ flight[r].pc = "idle"
    /\ \E later \in {NoSession} \cup FlightTokens :
         /\ authState' = IF ~is_authenticated THEN authState
                         ELSE IF IsNone(later) THEN Unauthenticated
                         ELSE Authenticated(later)
         /\ flight' = [flight EXCEPT ![r] =
              IF ~is_authenticated
              THEN [pc |-> "failed", error |-> "AuthenticationError"]
              ELSE LET h == get_auth_headers_reads(session, later)
                   IN  IF "error" \in DOMAIN h
                       THEN [pc |-> "failed", error |-> h.error]
                       ELSE [pc |-> "awaiting", headers |-> h,
                             built_from |-> later]]
    /\ UNCHANGED <<life, device_id, now, failed2fa, call, sent, outcome, service, tool>>
start_request(r) ==
    /\ Idle
    /\ flight[r].pc = "idle"
    /\ flight' = [flight EXCEPT ![r] =
         IF ~is_authenticated
         THEN [pc |-> "failed", error |-> "AuthenticationError"]
         ELSE [pc |-> "awaiting", headers |-> get_auth_headers,
               built_from |-> session]]
    /\ UNCHANGED <<life, device_id, authState, now, failed2fa, call, sent, outcome, service, tool>>

\* the answer arrives, or the error reaches the caller
finish_request(r) ==
    /\ flight[r].pc # "idle"
    /\ flight' = [flight EXCEPT ![r] = NoFlight]
    /\ UNCHANGED <<life, device_id, authState, now, failed2fa, call, sent, outcome, service, tool>>

-----------------------------------------------------------------------------
(* Authentication methods *)

\* SessionHandler.authenticate: the sign-on call and its three answers
handler_authenticate(cred, tok, aid) ==
    /\ Idle
    /\ call' = [op |-> "authenticate", args |-> [credentials |-> cred]]
    /\ sent' = << >>
    /\ failed2fa' = 0
    /\ IF cred \notin ValidCredentials
       THEN /\ authState' = Unauthenticated
            /\ outcome' = "AuthenticationError"
       ELSE IF cred \in TwoFactorAccounts
       THEN /\ authState' = PendingTwoFactor(aid)
            /\ outcome' = "TwoFactorRequired"
       ELSE /\ authState' = Authenticated(tok)
            /\ outcome' = "ok"
    /\ UNCHANGED <<life, device_id, now, flight, service, tool>>

\* TickTickV2Client.authenticate
authenticate(cred, tok, aid) == handler_authenticate(cred, tok, aid)

\* the authId the handler holds is the one the call names
PendingWith(auth_id) ==
    authState.tag = "PendingTwoFactor" /\ authState.authId = auth_id

\* SessionHandler.authenticate_2fa: the 2FA completion call.
\* accepted is the service's verdict on (auth_id, totp_code); on_failure is
\* the auth state a rejected code leaves.
handler_authenticate_2fa(auth_id, code_right, accepted, tok, on_failure) ==
    /\ Idle
    /\ PendingWith(auth_id) => (accepted <=> code_right)
    /\ ~code_right => ~accepted
    /\ call' = [op |-> "authenticate_2fa",
                args |-> [auth_id |-> auth_id, code_right |-> code_right]]
    /\ sent' = << >>
    /\ IF accepted
       THEN /\ authState' = Authenticated(tok)
            /\ outcome' = "ok"
            /\ failed2fa' = IF PendingWith(auth_id) THEN failed2fa ELSE 0
       ELSE /\ authState' = on_failure
            /\ outcome' = "AuthenticationError"
            /\ failed2fa' = IF PendingWith(auth_id) /\ failed2fa < MaxFailed
                            THEN failed2fa + 1 ELSE failed2fa
    /\ UNCHANGED <<life, device_id, now, flight, service, tool>>

\* TickTickV2Client.authenticate_2fa
authenticate_2fa_clears_on_failure(auth_id, code_right, accepted, tok) ==
    handler_authenticate_2fa(auth_id, code_right, accepted, tok,
                             Unauthenticated)
authenticate_2fa(auth_id, code_right, accepted, tok) ==
    handler_authenticate_2fa(auth_id, code_right, accepted, tok, authState)

\* SessionHandler.set_session
handler_set_session(tok) ==
    /\ Idle
    /\ authState' = Authenticated(tok)
    /\ call' = [op |-> "set_session", args |-> [session |-> tok]]
    /\ sent' = << >>
    /\ outcome' = "ok"
    /\ failed2fa' = 0
    /\ UNCHANGED <<life, device_id, now, flight, service, tool>>

\* TickTickV2Client.set_session
set_session_keeps_existing(tok) ==
    /\ Idle
    /\ authState' = IF authState.tag = "Authenticated" THEN authState
                    ELSE Authenticated(tok)
    /\ call' = [op |-> "set_session", args |-> [session |-> tok]]
    /\ sent' = << >>
    /\ outcome' = "ok"
    /\ failed2fa' = 0
    /\ UNCHANGED <<life, device_id, now, flight, service, tool>>
set_session(tok) == handler_set_session(tok)

\* sign-out of the session handler
sign_out ==
    /\ Idle
    /\ authState' = Unauthenticated
    /\ call' = [op |-> "sign_out", args |-> EmptyDict]
    /\ sent' = << >>
    /\ outcome' = "ok"
    /\ failed2fa' = 0
    /\ UNCHANGED <<life, device_id, now, flight, service, tool>>

\* time passes: a token with an expiry hint may expire
Tick ==
    /\ Idle
    /\ now < MaxTime
    /\ now' = now + 1
    /\ UNCHANGED <<life, device_id, authState, failed2fa, call, sent, outcome,
                 flight, service, tool>>

-----------------------------------------------------------------------------
(* Sync and health check *)

sync_requests == << http_get_json("/batch/check/0", EmptyDict) >>
sync == Idle /\ Invoke("sync", EmptyDict, sync_requests)

verify_authentication_clears_session ==
    /\ Idle
    /\ call' = [op |-> "verify_authentication", args |-> EmptyDict]
    /\ IF ~is_authenticated
       THEN /\ sent' = << >>
            /\ outcome' = "AuthenticationError"
            /\ authState' = authState
       ELSE \E resps \in [1..Len(sync_requests) -> Responses] :
              LET r == run_requests(sync_requests, resps)
              IN  /\ sent' = r.sent
                  /\ outcome' = CASE r.outcome = "ok" -> "True"
                                  [] r.outcome = "AuthenticationError"
                                       -> "AuthenticationError"
                                  [] OTHER -> "False"
                  /\ authState' = IF r.outcome = "AuthenticationError"
                                  THEN Unauthenticated ELSE authState
    /\ UNCHANGED <<life, device_id, now, failed2fa, flight, service, tool>>
\* verify_authentication without its `except Exception` clause
verify_authentication_reraises_all ==
    /\ Idle
    /\ call' = [op |-> "verify_authentication", args |-> EmptyDict]
    /\ IF ~is_authenticated
       THEN /\ sent' = << >>
            /\ outcome' = "AuthenticationError"
       ELSE \E resps \in [1..Len(sync_requests) -> Responses] :
              LET r == run_requests(sync_requests, resps)
              IN  /\ sent' = r.sent
                  /\ outcome' = IF r.outcome = "ok" THEN "True" ELSE r.outcome
    /\ UNCHANGED <<life, device_id, authState, now, failed2fa, flight, service, tool>>
verify_authentication ==
    /\ Idle
    /\ call' = [op |-> "verify_authentication", args |-> EmptyDict]
    /\ IF ~is_authenticated
       THEN /\ sent' = << >>
            /\ outcome' = "AuthenticationError"
       ELSE \E resps \in [1..Len(sync_requests) -> Responses] :
              LET r == run_requests(sync_requests, resps)
              IN  /\ sent' = r.sent
                  /\ outcome' = CASE r.outcome = "ok" -> "True"
                                  [] r.outcome = "AuthenticationError"
                                       -> "AuthenticationError"
                                  [] OTHER -> "False"
    /\ UNCHANGED <<life, device_id, authState, now, failed2fa, flight, service, tool>>

-----------------------------------------------------------------------------
(* Arguments of the batch methods: a list argument is None or a list *)

NoneList == [none |-> TRUE]
ListOf(s) == [list |-> s]
\* `x or []`
or_empty(x) == IF IsNone(x) \/ x.list = << >> THEN << >> ELSE x.list

BoundedSeq(S, n) == UNION {[1..k -> S] : k \in 0..n}
ListArgs(S) == {NoneList} \cup {ListOf(s) : s \in BoundedSeq(S, MaxBatchLen)}
\* omitted, empty, or one fixed non-empty list
FewListArgs(S) ==
    {NoneList, ListOf(<< >>)} \cup {ListOf(<<x>>) : x \in {CHOOSE y \in S : TRUE}}

-----------------------------------------------------------------------------
(* Task endpoints *)

TaskIds == {"t1", "t2"}
ProjectIds == {"p1", "p2"}

get_task_requests(task_id) == << http_get_json("/task/" \o task_id, EmptyDict) >>
get_task(task_id) == Idle /\ Invoke("get_task", [task_id |-> task_id],
                            get_task_requests(task_id))

batch_tasks_data_swapped(add, update, delete) ==
    [add |-> or_empty(add), update |-> or_empty(delete),
     delete |-> or_empty(update), addAttachments |-> << >>,
     updateAttachments |-> << >>, deleteAttachments |-> << >>]
batch_tasks_data(add, update, delete) ==
    [add |-> or_empty(add), update |-> or_empty(update),
     delete |-> or_empty(delete), addAttachments |-> << >>,
     updateAttachments |-> << >>, deleteAttachments |-> << >>]
batch_tasks_requests(add, update, delete) ==
    << http_post_json("/batch/task", batch_tasks_data(add, update, delete)) >>
batch_tasks(add, update, delete) ==
    Idle /\ Invoke("batch_tasks", [add |-> add, update |-> update, delete |-> delete],
           batch_tasks_requests(add, update, delete))

\* `if v is not None: task[key] = v`
Truthy(v) == v \notin {None, "", "0", "false", "[]"}
set_if_truthy(task, key, v) == IF Truthy(v) THEN Put(task, key, v) ELSE task
set_if_not_none(task, key, v) == IF v # None THEN Put(task, key, v) ELSE task

create_task_record(a) ==
    LET t0  == Put(Put(EmptyDict, "title", a.title), "projectId", a.project_id)
        t1  == set_if_not_none(t0, "content", a.content)
        t2  == set_if_not_none(t1, "desc", a.desc)
        t3  == set_if_not_none(t2, "kind", a.kind)
        t4  == set_if_not_none(t3, "priority", a.priority)
        t5  == set_if_not_none(t4, "startDate", a.start_date)
        t6  == set_if_not_none(t5, "dueDate", a.due_date)
        t7  == set_if_not_none(t6, "timeZone", a.time_zone)
        t8  == set_if_not_none(t7, "isAllDay", a.is_all_day)
        t9  == set_if_not_none(t8, "reminders", a.reminders)
        t10 == set_if_not_none(t9, "repeatFlag", a.repeat_flag)
        t11 == set_if_not_none(t10, "tags", a.tags)
        t12 == set_if_not_none(t11, "items", a.items)
        t13 == set_if_not_none(t12, "sortOrder", a.sort_order)
        t14 == set_if_not_none(t13, "parentId", a.parent_id)
    IN  t14

update_task_record(a) ==
    LET t0  == Put(Put(EmptyDict, "id", a.task_id), "projectId", a.project_id)
        t1  == set_if_not_none(t0, "title", a.title)
        t2  == set_if_not_none(t1, "content", a.content)
        t3  == set_if_not_none(t2, "desc", a.desc)
        t4  == set_if_not_none(t3, "kind", a.kind)
        t5  == set_if_not_none(t4, "status", a.status)
        t6  == set_if_not_none(t5, "priority", a.priority)
        t7  == set_if_not_none(t6, "startDate", a.start_date)
        t8  == set_if_not_none(t7, "dueDate", a.due_date)
        t9  == set_if_not_none(t8, "timeZone", a.time_zone)
        t10 == set_if_not_none(t9, "isAllDay", a.is_all_day)
        t11 == set_if_not_none(t10, "reminders", a.reminders)
        t12 == set_if_not_none(t11, "repeatFlag", a.repeat_flag)
        t13 == set_if_not_none(t12, "tags", a.tags)
        t14 == set_if_not_none(t13, "items", a.items)
        t15 == set_if_not_none(t14, "sortOrder", a.sort_order)
        t16 == set_if_not_none(t15, "completedTime", a.completed_time)
    IN  t16

set_task_parent_data(task_id, project_id, parent_id) ==
    << [taskId |-> task_id, projectId |-> project_id, parentId |-> parent_id] >>
set_task_parent_requests(task_id, project_id, parent_id) ==
    << http_post_json("/batch/taskParent",
                 set_task_parent_data(task_id, project_id, parent_id)) >>
set_task_parent(task_id, project_id, parent_id) ==
    Idle /\ Invoke("set_task_parent",
           [task_id |-> task_id, project_id |-> project_id,
            parent_id |-> parent_id],
           set_task_parent_requests(task_id, project_id, parent_id))

\* unset_task_parent naming the parent under both keys
unset_task_parent_data_both_keys(task_id, project_id, old_parent_id) ==
    << [taskId |-> task_id, projectId |-> project_id,
        parentId |-> old_parent_id, oldParentId |-> old_parent_id] >>
unset_task_parent_data(task_id, project_id, old_parent_id) ==
    << [taskId |-> task_id, projectId |-> project_id,
        oldParentId |-> old_parent_id] >>
unset_task_parent_requests(task_id, project_id, old_parent_id) ==
    << http_post_json("/batch/taskParent",
                 unset_task_parent_data(task_id, project_id, old_parent_id)) >>
unset_task_parent(task_id, project_id, old_parent_id) ==
    Idle /\ Invoke("unset_task_parent",
           [task_id |-> task_id, project_id |-> project_id,
            old_parent_id |-> old_parent_id],
           unset_task_parent_requests(task_id, project_id, old_parent_id))

create_task_requests_sets_parent(a) ==
    batch_tasks_requests(ListOf(<< create_task_record(a) >>), NoneList, NoneList)
      \o (IF a.parent_id # None
          THEN set_task_parent_requests("new", a.project_id, a.parent_id)
          ELSE << >>)
create_task_requests(a) ==
    batch_tasks_requests(ListOf(<< create_task_record(a) >>), NoneList, NoneList)
create_task(a) == Idle /\ Invoke("create_task", a, create_task_requests(a))

update_task_requests(a) ==
    batch_tasks_requests(NoneList, ListOf(<< update_task_record(a) >>), NoneList)
update_task(a) == Idle /\ Invoke("update_task", a, update_task_requests(a))

\* delete_task with the two ids under each other's key
delete_task_item_swapped(project_id, task_id) ==
    [projectId |-> task_id, taskId |-> project_id]
delete_task_item(project_id, task_id) ==
    [projectId |-> project_id, taskId |-> task_id]
delete_task_requests(project_id, task_id) ==
    batch_tasks_requests(NoneList, NoneList,
                         ListOf(<< delete_task_item(project_id, task_id) >>))
delete_task(project_id, task_id) ==
    Idle /\ Invoke("delete_task", [project_id |-> project_id, task_id |-> task_id],
           delete_task_requests(project_id, task_id))

\* move_tasks sending the moves last first
move_tasks_requests_reversed(moves) ==
    << http_post_json("/batch/taskProject",
                 [i \in 1..Len(moves) |-> moves[Len(moves) + 1 - i]]) >>
move_tasks_requests(moves) == << http_post_json("/batch/taskProject", moves) >>
move_tasks(moves) == Idle /\ Invoke("move_tasks", [moves |-> moves],
                            move_tasks_requests(moves))

move_task_move(task_id, from_project_id, to_project_id) ==
    [taskId |-> task_id, fromProjectId |-> from_project_id,
     toProjectId |-> to_project_id]
move_task_requests(task_id, from_project_id, to_project_id) ==
    move_tasks_requests(
        << move_task_move(task_id, from_project_id, to_project_id) >>)
move_task(task_id, from_project_id, to_project_id) ==
    Idle /\ Invoke("move_task",
           [task_id |-> task_id, from_project_id |-> from_project_id,
            to_project_id |-> to_project_id],
           move_task_requests(task_id, from_project_id, to_project_id))

\* datetime and date values, by their zero-padded fields
DateTimes == {[Y |-> "2025", m |-> "01", d |-> "05", H |-> "09", M |-> "00",
               S |-> "00"],
              [Y |-> "2025", m |-> "12", d |-> "31", H |-> "23", M |-> "59",
               S |-> "59"]}
Dates == {[Y |-> "2025", m |-> "01", d |-> "05"],
          [Y |-> "2025", m |-> "12", d |-> "31"]}
\* strftime("%Y-%m-%d %H:%M:%S")
strftime_datetime(t) ==
    t.Y \o "-" \o t.m \o "-" \o t.d \o " " \o t.H \o ":" \o t.M \o ":" \o t.S
\* strftime("%Y%m%d")
strftime_date(t) == t.Y \o t.m \o t.d

closed_tasks_params(from_date, to_date, status, limit) ==
    [from |-> strftime_datetime(from_date), to |-> strftime_datetime(to_date),
     status |-> status, limit |-> ToString(limit)]
get_completed_tasks_requests(from_date, to_date, limit) ==
    << http_get_json("/project/all/closed",
                closed_tasks_params(from_date, to_date, "Completed", limit)) >>
get_completed_tasks(from_date, to_date, limit) ==
    Idle /\ Invoke("get_completed_tasks",
           [from_date |-> from_date, to_date |-> to_date, limit |-> limit],
           get_completed_tasks_requests(from_date, to_date, limit))

get_abandoned_tasks_requests(from_date, to_date, limit) ==
    << http_get_json("/project/all/closed",
                closed_tasks_params(from_date, to_date, "Abandoned", limit)) >>
get_abandoned_tasks(from_date, to_date, limit) ==
    Idle /\ Invoke("get_abandoned_tasks",
           [from_date |-> from_date, to_date |-> to_date, limit |-> limit],
           get_abandoned_tasks_requests(from_date, to_date, limit))

get_deleted_tasks_requests(start, limit) ==
    << http_get_json("/project/all/trash/pagination",
                [start |-> ToString(start), limit |-> ToString(limit)]) >>
get_deleted_tasks(start, limit) ==
    Idle /\ Invoke("get_deleted_tasks", [start |-> start, limit |-> limit],
           get_deleted_tasks_requests(start, limit))

-----------------------------------------------------------------------------
(* User endpoints *)

get_user_status_requests == << http_get_json("/user/status", EmptyDict) >>
get_user_status == Idle /\ Invoke("get_user_status", EmptyDict, get_user_status_requests)

get_user_profile_requests == << http_get_json("/user/profile", EmptyDict) >>
get_user_profile ==
    Idle /\ Invoke("get_user_profile", EmptyDict, get_user_profile_requests)

\* str(include_web).lower()
str_lower_bool(b) == IF b THEN "true" ELSE "false"
get_user_preferences_requests(include_web) ==
    << http_get_json("/user/preferences/settings",
                     [includeWeb |-> str_lower_bool(include_web)]) >>
get_user_preferences(include_web) ==
    Idle /\ Invoke("get_user_preferences", [include_web |-> include_web],
           get_user_preferences_requests(include_web))

get_user_statistics_requests ==
    << http_get_json("/statistics/general", EmptyDict) >>
get_user_statistics ==
    Idle /\ Invoke("get_user_statistics", EmptyDict, get_user_statistics_requests)

-----------------------------------------------------------------------------
(* Project endpoints *)

batch_projects_data_omits_empty(add, update, delete) ==
    LET d1 == IF or_empty(add) # << >>
              THEN Put(EmptyDict, "add", or_empty(add)) ELSE EmptyDict
        d2 == IF or_empty(update) # << >>
              THEN Put(d1, "update", or_empty(update)) ELSE d1
        d3 == IF or_empty(delete) # << >>
              THEN Put(d2, "delete", or_empty(delete)) ELSE d2
    IN  d3
batch_projects_data(add, update, delete) ==
    [add |-> or_empty(add), update |-> or_empty(update),
     delete |-> or_empty(delete)]
batch_projects_requests(add, update, delete) ==
    << http_post_json("/batch/project",
                      batch_projects_data(add, update, delete)) >>
batch_projects(add, update, delete) ==
    Idle /\ Invoke("batch_projects",
           [add |-> add, update |-> update, delete |-> delete],
           batch_projects_requests(add, update, delete))

create_project_record(a) ==
    LET p0 == Put(EmptyDict, "name", a.name)
        p1 == set_if_not_none(p0, "color", a.color)
        p2 == set_if_not_none(p1, "kind", a.kind)
        p3 == set_if_not_none(p2, "viewMode", a.view_mode)
        p4 == set_if_not_none(p3, "groupId", a.group_id)
        p5 == set_if_not_none(p4, "sortOrder", a.sort_order)
    IN  p5
create_project_requests(a) ==
    batch_projects_requests(ListOf(<< create_project_record(a) >>),
                            NoneList, NoneList)
create_project(a) == Idle /\ Invoke("create_project", a, create_project_requests(a))

update_project_record(a) ==
    LET p0 == Put(Put(EmptyDict, "id", a.project_id), "name", a.name)
        p1 == set_if_not_none(p0, "color", a.color)
        p2 == set_if_not_none(p1, "groupId", a.group_id)
    IN  p2
update_project_requests(a) ==
    batch_projects_requests(NoneList, ListOf(<< update_project_record(a) >>),
                            NoneList)
update_project(a) == Idle /\ Invoke("update_project", a, update_project_requests(a))

delete_project_requests(project_id) ==
    batch_projects_requests(NoneList, NoneList, ListOf(<< project_id >>))
delete_project(project_id) ==
    Idle /\ Invoke("delete_project", [project_id |-> project_id],
           delete_project_requests(project_id))

-----------------------------------------------------------------------------
(* Project group endpoints *)

GroupIds == {"g1", "g2"}

batch_project_groups_data(add, update, delete) ==
    [add |-> or_empty(add), update |-> or_empty(update),
     delete |-> or_empty(delete)]
batch_project_groups_requests(add, update, delete) ==
    << http_post_json("/batch/projectGroup",
                      batch_project_groups_data(add, update, delete)) >>
batch_project_groups(add, update, delete) ==
    Idle /\ Invoke("batch_project_groups",
           [add |-> add, update |-> update, delete |-> delete],
           batch_project_groups_requests(add, update, delete))

create_project_group_record(name) == [name |-> name, listType |-> "group"]
create_project_group_requests(name) ==
    batch_project_groups_requests(
        ListOf(<< create_project_group_record(name) >>), NoneList, NoneList)
create_project_group(name) ==
    Idle /\ Invoke("create_project_group", [name |-> name],
           create_project_group_requests(name))

update_project_group_record(group_id, name) ==
    [id |-> group_id, name |-> name, listType |-> "group"]
update_project_group_requests(group_id, name) ==
    batch_project_groups_requests(
        NoneList, ListOf(<< update_project_group_record(group_id, name) >>),
        NoneList)
update_project_group(group_id, name) ==
    Idle /\ Invoke("update_project_group", [group_id |-> group_id, name |-> name],
           update_project_group_requests(group_id, name))

delete_project_group_requests_ungroups(group_id) ==
    batch_project_groups_requests(NoneList, NoneList, ListOf(<< group_id >>))
      \o batch_projects_requests(
            NoneList,
            ListOf(<< [id |-> "p1", name |-> "P1", groupId |-> "NONE"] >>),
            NoneList)
delete_project_group_requests(group_id) ==
    batch_project_groups_requests(NoneList, NoneList, ListOf(<< group_id >>))
delete_project_group(group_id) ==
    Idle /\ Invoke("delete_project_group", [group_id |-> group_id],
           delete_project_group_requests(group_id))

-----------------------------------------------------------------------------
(* Tag endpoints *)

batch_tags_data(add, update) ==
    [add |-> or_empty(add), update |-> or_empty(update)]
batch_tags_requests(add, update) ==
    << http_post_json("/batch/tag", batch_tags_data(add, update)) >>
batch_tags(add, update) ==
    Idle /\ Invoke("batch_tags", [add |-> add, update |-> update],
           batch_tags_requests(add, update))

\* a label is a string, spelled here as the sequence of its characters
Labels == { <<"W", "o", "r", "k">>, <<"M", "y", " ", "T", "a", "g">>,
            <<"h", "o", "m", "e">> }
Lower(c) ==
    CASE c = "W" -> "w" [] c = "M" -> "m" [] c = "T" -> "t" [] OTHER -> c
RECURSIVE Str(_)
Str(cs) == IF cs = << >> THEN "" ELSE Head(cs) \o Str(Tail(cs))
\* label.lower().replace(" ", "")
lower_replace(label) ==
    Str(SelectSeq([i \in DOMAIN label |-> Lower(label[i])],
                  LAMBDA c : c # " "))

create_tag_record(a) ==
    LET g0 == Put(EmptyDict, "label", Str(a.label))
        g1 == Put(g0, "name", lower_replace(a.label))
        g2 == set_if_not_none(g1, "color", a.color)
        g3 == set_if_not_none(g2, "parent", a.parent)
        g4 == set_if_not_none(g3, "sortType", a.sort_type)
        g5 == set_if_not_none(g4, "sortOrder", a.sort_order)
    IN  g5
create_tag_requests(a) ==
    batch_tags_requests(ListOf(<< create_tag_record(a) >>), NoneList)
create_tag(a) == Idle /\ Invoke("create_tag", a, create_tag_requests(a))

update_tag_record(a) ==
    LET g0 == Put(Put(Put(EmptyDict, "name", a.name), "label", a.label),
                  "rawName", a.name)
        g1 == set_if_not_none(g0, "color", a.color)
        g2 == set_if_not_none(g1, "parent", a.parent)
        g3 == set_if_not_none(g2, "sortType", a.sort_type)
        g4 == set_if_not_none(g3, "sortOrder", a.sort_order)
    IN  g4
update_tag_requests(a) ==
    batch_tags_requests(NoneList, ListOf(<< update_tag_record(a) >>))
update_tag(a) == Idle /\ Invoke("update_tag", a, update_tag_requests(a))

TagNames == {"work", "home"}

\* rename_tag with the two names exchanged in the body
rename_tag_requests_swapped(old_name, new_label) ==
    << http_put("/tag/rename", [name |-> new_label, newName |-> old_name]) >>
rename_tag_requests(old_name, new_label) ==
    << http_put("/tag/rename", [name |-> old_name, newName |-> new_label]) >>
rename_tag(old_name, new_label) ==
    Idle /\ Invoke("rename_tag", [old_name |-> old_name, new_label |-> new_label],
           rename_tag_requests(old_name, new_label))

\* delete_tag as a delete entry of the batch envelope
delete_tag_requests_batched(name) ==
    << http_post_json("/batch/tag", [delete |-> << name >>]) >>
delete_tag_requests(name) == << http_delete("/tag", [name |-> name]) >>
delete_tag(name) ==
    Idle /\ Invoke("delete_tag", [name |-> name], delete_tag_requests(name))

merge_tags_requests(source_name, target_name) ==
    << http_put("/tag/merge",
                [name |-> source_name, newName |-> target_name]) >>
merge_tags(source_name, target_name) ==
    Idle /\ Invoke("merge_tags",
           [source_name |-> source_name, target_name |-> target_name],
           merge_tags_requests(source_name, target_name))

-----------------------------------------------------------------------------
(* Focus and habit endpoints *)

get_focus_heatmap_requests(start_date, end_date) ==
    << http_get_json("/pomodoros/statistics/heatmap/"
                       \o strftime_date(start_date) \o "/"
                       \o strftime_date(end_date), EmptyDict) >>
get_focus_heatmap(start_date, end_date) ==
    Idle /\ Invoke("get_focus_heatmap",
           [start_date |-> start_date, end_date |-> end_date],
           get_focus_heatmap_requests(start_date, end_date))

get_focus_by_tag_requests(start_date, end_date) ==
    << http_get_json("/pomodoros/statistics/dist/"
                       \o strftime_date(start_date) \o "/"
                       \o strftime_date(end_date), EmptyDict) >>
get_focus_by_tag(start_date, end_date) ==
    Idle /\ Invoke("get_focus_by_tag",
           [start_date |-> start_date, end_date |-> end_date],
           get_focus_by_tag_requests(start_date, end_date))

get_habit_checkins_requests(habit_ids, after_timestamp) ==
    << http_post_json("/habitCheckins/query",
                      [habitIds |-> habit_ids,
                       afterStamp |-> after_timestamp]) >>
get_habit_checkins(habit_ids, after_timestamp) ==
    Idle /\ Invoke("get_habit_checkins",
           [habit_ids |-> habit_ids, after_timestamp |-> after_timestamp],
           get_habit_checkins_requests(habit_ids, after_timestamp))

-----------------------------------------------------------------------------
(* The arguments the methods are called with *)

RECURSIVE SubsetsUpTo(_, _)
SubsetsUpTo(S, n) ==
    IF n = 0 THEN {{}}
    ELSE LET P == SubsetsUpTo(S, n - 1)
         IN  P \cup {T \cup {x} : T \in P, x \in S}
\* the sets of optional arguments a caller supplies
SuppliedSets(Optional) == SubsetsUpTo(Optional, MaxSupplied) \cup {Optional}
FewSuppliedSets(Optional) == {{}, Optional}

\* a value for an argument: one Python counts as true, and one it counts as
\* false although it is not None
SampleValue(k, falsy) ==
    CASE k \in {"priority", "sort_order", "status"} ->
           IF falsy THEN "0" ELSE "5"
      [] k = "is_all_day" -> IF falsy THEN "false" ELSE "true"
      [] k \in {"reminders", "tags", "items"} ->
           IF falsy THEN "[]" ELSE "[" \o k \o "]"
      [] OTHER -> IF falsy THEN "" ELSE k \o "-value"

ArgsOf(Required, Optional, S, falsy) ==
    [k \in Required \cup Optional |->
        IF k \in Required THEN k \o "-value"
        ELSE IF k \in S THEN SampleValue(k, falsy) ELSE None]

CreateTaskRequired == {"title", "project_id"}
CreateTaskOptional ==
    {"content", "desc", "kind", "priority", "start_date", "due_date",
     "time_zone", "is_all_day", "reminders", "repeat_flag", "tags", "items",
     "sort_order", "parent_id"}
CreateTaskArgs ==
    {ArgsOf(CreateTaskRequired, CreateTaskOptional, S, f) :
        S \in SuppliedSets(CreateTaskOptional), f \in BOOLEAN}
FewCreateTaskArgs ==
    {ArgsOf(CreateTaskRequired, CreateTaskOptional, S, FALSE) :
        S \in FewSuppliedSets(CreateTaskOptional)}

UpdateTaskRequired == {"task_id", "project_id"}
UpdateTaskOptional ==
    {"title", "content", "desc", "kind", "status", "priority", "start_date",
     "due_date", "time_zone", "is_all_day", "reminders", "repeat_flag",
     "tags", "items", "sort_order", "completed_time"}
UpdateTaskArgs ==
    {ArgsOf(UpdateTaskRequired, UpdateTaskOptional, S, f) :
        S \in SuppliedSets(UpdateTaskOptional), f \in BOOLEAN}
FewUpdateTaskArgs ==
    {ArgsOf(UpdateTaskRequired, UpdateTaskOptional, S, FALSE) :
        S \in FewSuppliedSets(UpdateTaskOptional)}

CreateProjectArgs ==
    {ArgsOf({"name"}, {"color", "kind", "view_mode", "group_id", "sort_order"},
            S, FALSE) :
        S \in FewSuppliedSets({"color", "kind", "view_mode", "group_id",
                               "sort_order"})}
UpdateProjectArgs ==
    {ArgsOf({"project_id", "name"}, {"color", "group_id"}, S, FALSE) :
        S \in FewSuppliedSets({"color", "group_id"})}
TagOptional == {"color", "parent", "sort_type", "sort_order"}
CreateTagArgs ==
    {ArgsOf({}, TagOptional, S, FALSE) @@ [label |-> l] :
        S \in FewSuppliedSets(TagOptional), l \in Labels}
UpdateTagArgs ==
    {ArgsOf({"name", "label"}, TagOptional, S, FALSE) :
        S \in FewSuppliedSets(TagOptional)}

\* the items of the batch lists
TaskAddItems == {[title |-> "T1", projectId |-> "p1"],
                 [title |-> "T2", projectId |-> "p2"]}
TaskUpdateItems == {[id |-> "t1", projectId |-> "p1", title |-> "X"],
                    [id |-> "t2", projectId |-> "p2", status |-> "2"]}
TaskDeleteItems == {[projectId |-> "p1", taskId |-> "t1"],
                    [projectId |-> "p2", taskId |-> "t2"]}
TaskMoves == {move_task_move("t1", "p1", "p2"), move_task_move("t2", "p2", "p1")}
ProjectAddItems == {[name |-> "P1"], [name |-> "P2"]}
ProjectUpdateItems == {[id |-> "p1", name |-> "P1"], [id |-> "p2", name |-> "P2"]}
GroupAddItems == {create_project_group_record("G1"),
                  create_project_group_record("G2")}
GroupUpdateItems == {update_project_group_record("g1", "G1"),
                     update_project_group_record("g2", "G2")}
TagAddItems == {[label |-> "Work", name |-> "work"],
                [label |-> "Home", name |-> "home"]}
TagUpdateItems == {[name |-> "work", label |-> "Work", rawName |-> "work"],
                   [name |-> "home", label |-> "Home", rawName |-> "home"]}

\* the session a shaping specification installs
ShapeToken == SessionToken("tok1", NoExpiry)

-----------------------------------------------------------------------------
(* The tags the service holds, and what it does on PUT /tag/rename *)

\* the tags of the account before any rename of the model
InitialTags ==
    { [name |-> "work", label |-> "Work", color |-> "#FF0000", parent |-> None],
      [name |-> "home", label |-> "home", color |-> "#00FF00",
       parent |-> "work"] }

\* the names a caller may ask to rename; "gone" is never the name of a tag
RenameOldNames == TagNames \cup {"mytag", "gone"}

\* the name the service derives from a label: normalized, lowercase
\* (a string that spells none of Labels is lowercase without spaces already)
service_tag_name(label) ==
    IF \E cs \in Labels : Str(cs) = label
    THEN lower_replace(CHOOSE cs \in Labels : Str(cs) = label)
    ELSE label

HasTag(tags, name) == \E t \in tags : t.name = name

\* the service renames the tag called body.name: its label becomes
\* body.newName and its name the normalized label; colour and parent stay.
\* It changes nothing when there is no such tag or the new name is taken.
service_rename_tag(tags, body) ==
    LET new_name == service_tag_name(body.newName)
    IN  IF ~HasTag(tags, body.name) THEN tags
        ELSE IF new_name # body.name /\ HasTag(tags, new_name) THEN tags
        ELSE LET t == CHOOSE t \in tags : t.name = body.name
             IN  (tags \ {t}) \cup
                 {[t EXCEPT !.name = new_name, !.label = body.newName]}

\* the effect on the tags of the requests that reached the service
RECURSIVE service_serve(_, _)
service_serve(tags, reqs) ==
    IF reqs = << >> THEN tags
    ELSE LET r == Head(reqs)
             served == IF r.response = "ok" /\ r.method = "PUT"
                          /\ r.path = "/tag/rename"
                       THEN service_rename_tag(tags, r.body)
                       ELSE tags
         IN  service_serve(served, Tail(reqs))

\* rename_tag against the service that holds the tags
served_rename_tag(old_name, new_label) ==
    /\ Idle
    /\ \E resps \in [1..Len(rename_tag_requests(old_name, new_label))
                      -> Responses] :
         LET r == run_requests(rename_tag_requests(old_name, new_label), resps)
         IN  /\ sent' = r.sent
             /\ outcome' = r.outcome
             /\ service' = [service EXCEPT !.tags = service_serve(@, r.sent)]
    /\ call' = [op |-> "rename_tag",
                args |-> [old_name |-> old_name, new_label |-> new_label]]
    /\ UNCHANGED <<life, device_id, authState, now, failed2fa, flight, tool>>

-----------------------------------------------------------------------------
(* The lifespan of the server: server.py, lifespan *)

\* before `try`: no client in locals, nothing called yet
NoLife == [pc |-> "from_settings", client |-> FALSE, connected |-> FALSE,
           yielded |-> FALSE, disconnects |-> 0, raised |-> "none"]

\* client = TickTickClient.from_settings(): binds client, or raises
lifespan_from_settings ==
    /\ life.pc = "from_settings"
    /\ \E ok \in BOOLEAN :
         life' = IF ok THEN [life EXCEPT !.pc = "connect", !.client = TRUE]
                 ELSE [life EXCEPT !.pc = "except", !.raised = "startup"]
    /\ UNCHANGED <<device_id, authState, now, failed2fa, call, sent, outcome,
                   flight, service, tool>>

\* await client.connect(), then yield {"client": client}; or connect raises
lifespan_connect ==
    /\ life.pc = "connect"
    /\ \E ok \in BOOLEAN :
         life' = IF ok THEN [life EXCEPT !.pc = "serving", !.connected = TRUE,
                                         !.yielded = TRUE]
                 ELSE [life EXCEPT !.pc = "except", !.raised = "startup"]
    /\ UNCHANGED <<device_id, authState, now, failed2fa, call, sent, outcome,
                   flight, service, tool>>

\* the ways the generator is resumed at its yield
ServerExits == {"shutdown", "exception", "cancelled"}

\* the server stops: normally, or an Exception or a CancelledError is thrown
\* in at the yield. Only an Exception is caught by `except Exception`.
lifespan_exit(how) ==
    /\ life.pc = "serving"
    /\ Idle
    /\ tool.pc = "idle"
    /\ life' = CASE how = "shutdown" -> [life EXCEPT !.pc = "finally"]
                 [] how = "exception" ->
                      [life EXCEPT !.pc = "except", !.raised = "running"]
                 [] how = "cancelled" ->
                      [life EXCEPT !.pc = "finally", !.raised = "cancelled"]
    /\ UNCHANGED <<device_id, authState, now, failed2fa, call, sent, outcome,
                   flight, service, tool>>

\* except Exception as e: logger.error(...); raise
lifespan_except ==
    /\ life.pc = "except"
    /\ life' = [life EXCEPT !.pc = "finally"]
    /\ UNCHANGED <<device_id, authState, now, failed2fa, call, sent, outcome,
                   flight, service, tool>>

\* finally without its test of locals()
lifespan_finally_unconditional ==
    /\ life.pc = "finally"
    /\ life' = [life EXCEPT !.pc = "done", !.disconnects = @ + 1]
    /\ UNCHANGED <<device_id, authState, now, failed2fa, call, sent, outcome,
                   flight, service, tool>>
\* finally: if "client" in locals(): await client.disconnect()
lifespan_finally ==
    /\ life.pc = "finally"
    /\ life' = IF life.client
               THEN [life EXCEPT !.pc = "done", !.disconnects = @ + 1]
               ELSE [life EXCEPT !.pc = "done"]
    /\ UNCHANGED <<device_id, authState, now, failed2fa, call, sent, outcome,
                   flight, service, tool>>

-----------------------------------------------------------------------------
(* Error handling of the tools: server.py, handle_error *)

\* `kw in s` for two strings
Contains(kw, s) ==
    \E i \in 0..(Len(s) - Len(kw)) : SubSeq(s, i + 1, i + Len(kw)) = kw

\* str.lower(), for the capitals of the messages used here
RECURSIVE lower(_)
lower(str) ==
    IF str = "" THEN ""
    ELSE Lower(SubSeq(str, 1, 1)) \o lower(SubSeq(str, 2, Len(str)))

\* the exceptions a call of the unified client can raise, by type name: the
\* kinds of the taxonomy, two built-in types, and a type whose name holds
\* two of the keywords
TaxonomyTypes ==
    {"TickTickAuthenticationError", "TickTickNotFoundError",
     "TickTickValidationError", "TickTickConfigurationError",
     "TickTickRateLimitError", "TickTickQuotaError", "TickTickForbiddenError",
     "TickTickServerError", "TickTickUnknownError"}
ExceptionTypes ==
    TaxonomyTypes \cup {"ValueError", "FileNotFoundError",
                        "ServerValidationError"}
ExceptionTexts == {"Task not found: t1", "no such project", "boom"}

\* error_message(title, suggestion) of the formatting module
error_message(title, suggestion) == [error |-> title, suggestion |-> suggestion]
success_message(text) == [success |-> text]

\* the hint of the NotFound branch, by its first line
not_found_hint(error_str) ==
    IF Contains("task", lower(error_str))
    THEN "HINTS: task may have been permanently deleted"
    ELSE IF Contains("project", lower(error_str))
    THEN "HINTS: use ticktick_list_projects"
    ELSE IF Contains("tag", lower(error_str))
    THEN "HINTS: use ticktick_list_tags"
    ELSE IF Contains("folder", lower(error_str))
            \/ Contains("group", lower(error_str))
    THEN "HINTS: use ticktick_list_folders"
    ELSE "Verify the ID is correct and the resource exists."
configuration_hint(error_str) ==
    IF Contains("recurrence", lower(error_str))
       /\ Contains("start_date", lower(error_str))
    THEN "TICKTICK REQUIREMENT: Recurring tasks require a start_date."
    ELSE "Check your environment variables and tool parameters."

\* handle_error without its Quota branch
handle_error_without_quota(error_type, error_str) ==
    IF Contains("Authentication", error_type)
    THEN error_message("Authentication failed",
                       "NEXT STEPS: verify environment variables")
    ELSE IF Contains("NotFound", error_type)
    THEN error_message("Resource not found: " \o error_str,
                       not_found_hint(error_str))
    ELSE IF Contains("Validation", error_type)
    THEN error_message("Invalid input: " \o error_str,
                       "Check the parameter types and constraints")
    ELSE IF Contains("Configuration", error_type)
    THEN error_message("Configuration error: " \o error_str,
                       configuration_hint(error_str))
    ELSE IF Contains("RateLimit", error_type)
    THEN error_message("Rate limit exceeded",
                       "NEXT STEPS: wait 30-60 seconds before retrying")
    ELSE IF Contains("Forbidden", error_type)
    THEN error_message("Access denied: " \o error_str,
                       "You don't have permission to access this resource")
    ELSE IF Contains("Server", error_type)
    THEN error_message("TickTick server error: " \o error_str,
                       "NEXT STEPS: wait a moment and retry")
    ELSE error_message("Unexpected error: " \o error_str,
                       "Error type: " \o error_type)
\* handle_error: the if/elif chain over type(e).__name__
handle_error(error_type, error_str) ==
    IF Contains("Authentication", error_type)
    THEN error_message("Authentication failed",
                       "NEXT STEPS: verify environment variables")
    ELSE IF Contains("NotFound", error_type)
    THEN error_message("Resource not found: " \o error_str,
                       not_found_hint(error_str))
    ELSE IF Contains("Validation", error_type)
    THEN error_message("Invalid input: " \o error_str,
                       "Check the parameter types and constraints")
    ELSE IF Contains("Configuration", error_type)
    THEN error_message("Configuration error: " \o error_str,
                       configuration_hint(error_str))
    ELSE IF Contains("RateLimit", error_type)
    THEN error_message("Rate limit exceeded",
                       "NEXT STEPS: wait 30-60 seconds before retrying")
    ELSE IF Contains("Quota", error_type)
    THEN error_message("Account quota exceeded",
                       "HINTS: free accounts have limited projects/tasks")
    ELSE IF Contains("Forbidden", error_type)
    THEN error_message("Access denied: " \o error_str,
                       "You don't have permission to access this resource")
    ELSE IF Contains("Server", error_type)
    THEN error_message("TickTick server error: " \o error_str,
                       "NEXT STEPS: wait a moment and retry")
    ELSE error_message("Unexpected error: " \o error_str,
                       "Error type: " \o error_type)

\* what the call of the unified client inside a tool does: it returns, or it
\* raises an exception of some type with some text
NoException == [type |-> None, text |-> None]
ClientCallEnds ==
    {NoException} \cup
    {[type |-> t, text |-> x] : t \in ExceptionTypes, x \in ExceptionTexts}

\* a tool: try: ...; return success_message(...)
\*         except Exception as e: return handle_error(e, ...)
tool_try_except(name, task_id, ends) ==
    /\ tool.pc = "idle"
    /\ tool.calls < MaxToolCalls
    /\ tool' = [pc |-> "done", calls |-> tool.calls + 1, name |-> name,
                raised |-> ends,
                propagated |-> FALSE,
                returned |->
                  IF ends = NoException
                  THEN success_message("Task " \o task_id \o " done.")
                  ELSE handle_error(ends.type, ends.text)]
    /\ UNCHANGED <<life, device_id, authState, now, failed2fa, call, sent,
                   outcome, flight, service>>

ticktick_complete_task(task_id, ends) ==
    tool_try_except("ticktick_complete_task", task_id, ends)
ticktick_delete_task(task_id, ends) ==
    tool_try_except("ticktick_delete_task", task_id, ends)

-----------------------------------------------------------------------------
(* Truncation of long responses: server.py, truncate_response *)

CHARACTER_LIMIT == 25000

\* a response text, by its length and the positions (from 0) of its newline
\* characters; every other character is not a newline
TextLengths ==
    {0, CHARACTER_LIMIT - 500, CHARACTER_LIMIT - 1, CHARACTER_LIMIT,
     CHARACTER_LIMIT + 1, CHARACTER_LIMIT + 600}
NewlinePositions ==
    {0, 1, CHARACTER_LIMIT - 503, CHARACTER_LIMIT - 502, CHARACTER_LIMIT - 501,
     CHARACTER_LIMIT - 500, CHARACTER_LIMIT - 499}
Texts ==
    UNION {{[len |-> n, newlines |-> nl] :
               nl \in SUBSET {p \in NewlinePositions : p < n}} :
           n \in TextLengths}

\* result.rfind("\n" * width, 0, end): the highest start of a run of width
\* newlines that lies within result[0:end], or -1
rfind(result, width, end) ==
    LET hits == {p \in result.newlines :
                    /\ p + width <= end
                    /\ \A k \in 0..(width - 1) : (p + k) \in result.newlines}
    IN  IF hits = {} THEN -1
        ELSE CHOOSE p \in hits : \A q \in hits : q <= p

\* the notice appended to a truncated response; the warning sign and its
\* variation selector are two characters, written here as "(!"
truncation_message ==
    "\n\n---\n"
    \o "(! **Response truncated** (exceeded 25,000 characters)\n\n"
    \o "Showing partial results. To see more:\n"
    \o "- Use filters (project_id, tag, priority) to narrow results\n"
    \o "- Use the 'limit' parameter to reduce the number of items\n"
    \o "- Request response_format='json' for more compact output"

\* truncate_response cutting at the limit itself
truncate_response_at_limit(result) ==
    IF result.len <= CHARACTER_LIMIT
    THEN [kept |-> result.len, message |-> ""]
    ELSE LET truncate_at == CHARACTER_LIMIT
             blank_line == rfind(result, 2, truncate_at)
             newline == rfind(result, 1, truncate_at)
             truncate_point ==
                 IF blank_line # -1 THEN blank_line
                 ELSE IF newline # -1 THEN newline
                 ELSE truncate_at
         IN  [kept |-> truncate_point, message |-> truncation_message]
\* truncate_response: the returned text is result[:kept] + message
truncate_response(result) ==
    IF result.len <= CHARACTER_LIMIT
    THEN [kept |-> result.len, message |-> ""]
    ELSE LET truncate_at == CHARACTER_LIMIT - 500
             blank_line == rfind(result, 2, truncate_at)
             newline == rfind(result, 1, truncate_at)
             truncate_point ==
                 IF blank_line # -1 THEN blank_line
                 ELSE IF newline # -1 THEN newline
                 ELSE truncate_at
         IN  [kept |-> truncate_point, message |-> truncation_message]

\* a list tool formats a response and returns truncate_response of it
tool_truncates(result) ==
    /\ tool.pc = "idle"
    /\ tool.calls < MaxToolCalls
    /\ tool' = [pc |-> "done", calls |-> tool.calls + 1, result |-> result,
                truncated |-> truncate_response(result)]
    /\ UNCHANGED <<life, device_id, authState, now, failed2fa, call, sent,
                   outcome, flight, service>>

-----------------------------------------------------------------------------
(* The tool layer of server.py, over a task the service holds *)

\* the fields ticktick_update_task can change
TaskFields == {"title", "content", "priority", "start_date", "due_date", "tags"}

\* datetime.fromisoformat: the parsed value is not the string
fromisoformat(str) == [datetime |-> str]

\* the task as the service holds it before any write of the model
InitialTask ==
    [id |-> "t1", project_id |-> "p1", title |-> "title-0",
     content |-> "content-0", priority |-> 1,
     start_date |-> fromisoformat("2026-01-01"),
     due_date |-> fromisoformat("2026-01-02"), tags |-> "[tags-0]"]
\* the value another client writes to a field
OtherValue(f) ==
    CASE f = "priority" -> 3
      [] f \in {"start_date", "due_date"} -> fromisoformat("2026-03-03")
      [] f = "tags" -> "[tags-other]"
      [] OTHER -> f \o "-other"
\* the value the caller of the tool supplies for a field
ParamValue(f) ==
    CASE f = "priority" -> "high"
      [] f \in {"start_date", "due_date"} -> "2026-02-02"
      [] f = "tags" -> "[tags-new]"
      [] OTHER -> f \o "-new"
UpdateParams ==
    {[f \in TaskFields |-> IF f \in S THEN ParamValue(f) ELSE None] :
        S \in SuppliedSets(TaskFields)}

\* priority_map with the three levels numbered in a row
priority_map_in_a_row(p, default) ==
    CASE p \in {"none", "0"} -> 0
      [] p \in {"low", "1"} -> 1
      [] p \in {"medium", "3"} -> 2
      [] p \in {"high", "5"} -> 3
      [] OTHER -> default
\* priority_map.get(p, default): the priority is a number, the key a string
priority_map(p, default) ==
    CASE p \in {"none", "0"} -> 0
      [] p \in {"low", "1"} -> 1
      [] p \in {"medium", "3"} -> 3
      [] p \in {"high", "5"} -> 5
      [] OTHER -> default

\* the priority strings a caller of the tools can give, or none
PriorityParams ==
    {None, "", "none", "low", "medium", "high", "0", "1", "3", "5",
     "urgent", "High"}
\* an optional number: None, or the number
NoInt == [none |-> TRUE]
IntOf(n) == [int |-> n]

\* ticktick_create_task up to its call of client.create_task: the keyword
\* arguments it hands to the client
create_task_kwargs(params) ==
    [title |-> params.title,
     priority |-> IF params.priority # None /\ params.priority # ""
                  THEN IntOf(priority_map(params.priority, 0)) ELSE NoInt,
     start_date |-> IF params.start_date # None /\ params.start_date # ""
                    THEN fromisoformat(params.start_date) ELSE NoInt,
     due_date |-> IF params.due_date # None /\ params.due_date # ""
                  THEN fromisoformat(params.due_date) ELSE NoInt]
CreateParams ==
    {[title |-> "title-new", priority |-> p, start_date |-> d,
      due_date |-> None] : p \in PriorityParams, d \in {None, "2026-02-02"}}
\* the update parameters that supply the priority alone
PriorityUpdateParams ==
    {[f \in TaskFields |-> IF f = "priority" THEN p ELSE None] :
        p \in PriorityParams}

\* the assignments of ticktick_update_task to the task object it read
update_task_fields(task, params) ==
    [task EXCEPT
       !.title = IF params.title # None THEN params.title ELSE @,
       !.content = IF params.content # None THEN params.content ELSE @,
       !.priority = IF params.priority # None
                    THEN priority_map(params.priority, @) ELSE @,
       !.start_date = IF params.start_date # None
                      THEN fromisoformat(params.start_date) ELSE @,
       !.due_date = IF params.due_date # None
                    THEN fromisoformat(params.due_date) ELSE @,
       !.tags = IF params.tags # None THEN params.tags ELSE @]

\* no tool is running; calls counts the invocations so far
NoTool == [pc |-> "idle", calls |-> 0]

\* ticktick_create_task: the arguments are parsed and handed to the client
ticktick_create_task(params) ==
    /\ Idle
    /\ tool.pc = "idle"
    /\ tool.calls < MaxToolCalls
    /\ \E answered \in BOOLEAN :
         tool' = [pc |-> "done", calls |-> tool.calls + 1, params |-> params,
                  handed |-> create_task_kwargs(params),
                  outcome |-> IF is_authenticated /\ answered
                              THEN "ok" ELSE "error",
                  written |-> EmptyDict]
    /\ UNCHANGED <<life, device_id, authState, now, failed2fa, call, sent,
                   outcome, flight, service>>

\* ticktick_update_task up to its second await: get_task, then the
\* assignments to the task object
ticktick_update_task_read(params) ==
    /\ Idle
    /\ tool.pc = "idle"
    /\ tool.calls < MaxToolCalls
    /\ \E answered \in BOOLEAN :
         tool' = IF is_authenticated /\ answered
                 THEN [pc |-> "read", calls |-> tool.calls + 1,
                       params |-> params,
                       task |-> update_task_fields(service.task, params)]
                 ELSE [pc |-> "done", calls |-> tool.calls + 1,
                       params |-> params,
                       outcome |-> "error", written |-> EmptyDict]
    /\ UNCHANGED <<life, device_id, authState, now, failed2fa, call, sent, outcome,
                   flight, service>>

\* the record client.update_task(task) writes for a task object: the object
update_task_object(task) == task

\* ticktick_update_task from its second await on: client.update_task(task)
ticktick_update_task_write ==
    /\ tool.pc = "read"
    /\ \E answered \in BOOLEAN :
         IF is_authenticated /\ answered
         THEN /\ service' = [service EXCEPT
                   !.task = update_task_object(tool.task) @@ @]
              /\ tool' = [pc |-> "done", calls |-> tool.calls,
                          params |-> tool.params, outcome |-> "ok",
                          written |-> update_task_object(tool.task)]
         ELSE /\ service' = service
              /\ tool' = [pc |-> "done", calls |-> tool.calls,
                          params |-> tool.params, outcome |-> "error",
                          written |-> EmptyDict]
    /\ UNCHANGED <<life, device_id, authState, now, failed2fa, call, sent, outcome,
                   flight>>

\* the tool returns its text to the caller
tool_return ==
    /\ tool.pc = "done"
    /\ tool' = [pc |-> "idle", calls |-> tool.calls]
    /\ UNCHANGED <<life, device_id, authState, now, failed2fa, call, sent, outcome,
                   flight, service>>

\* another client of the same account updates one field of the task
other_client_update(f) ==
    /\ service.others < MaxOtherWrites
    /\ service' = [service EXCEPT !.task = [@ EXCEPT ![f] = OtherValue(f)],
                                  !.others = @ + 1]
    /\ UNCHANGED <<life, device_id, authState, now, failed2fa, call, sent, outcome,
                   flight, tool>>

-----------------------------------------------------------------------------
Init ==
    /\ device_id \in DeviceIds
    /\ authState = Unauthenticated
    /\ now = 0
    /\ failed2fa = 0
    /\ call = NoCall
    /\ sent = << >>
    /\ outcome = "none"
    /\ flight = [r \in Flights |-> NoFlight]
    /\ service = [task |-> InitialTask, others |-> 0, tags |-> InitialTags]
    /\ tool = NoTool
    /\ life = NoLife

AuthNext ==
    \/ \E cred \in Credentials, tok \in FreshTokens, aid \in AuthIds :
         authenticate(cred, tok, aid)
    \/ \E aid \in AuthIds, code_right \in BOOLEAN, accepted \in BOOLEAN,
          tok \in FreshTokens :
         authenticate_2fa(aid, code_right, accepted, tok)
    \/ \E tok \in Tokens : set_session(tok)
    \/ sign_out
    \/ Tick
    \/ Return

ReadNext ==
    \/ sync
    \/ verify_authentication
    \/ get_user_status
    \/ get_user_profile
    \/ \E b \in BOOLEAN : get_user_preferences(b)
    \/ get_user_statistics
    \/ \E t \in {"t1"} : get_task(t)
    \/ \E f \in DateTimes, t \in DateTimes : get_completed_tasks(f, t, 100)
    \/ \E f \in DateTimes, t \in DateTimes : get_abandoned_tasks(f, t, 100)
    \/ \E st \in {0, 500} : get_deleted_tasks(st, 500)
    \/ \E f \in Dates, t \in Dates : get_focus_heatmap(f, t)
    \/ \E f \in Dates, t \in Dates : get_focus_by_tag(f, t)
    \/ \E ids \in {<< >>, <<"h1", "h2">>} : get_habit_checkins(ids, 0)

TaskMutationNext ==
    \/ \E a \in FewListArgs(TaskAddItems), u \in FewListArgs(TaskUpdateItems),
          d \in FewListArgs(TaskDeleteItems) : batch_tasks(a, u, d)
    \/ \E a \in FewCreateTaskArgs : create_task(a)
    \/ \E a \in FewUpdateTaskArgs : update_task(a)
    \/ \E t \in {"t1"} : delete_task("p1", t)
    \/ \E m \in BoundedSeq(TaskMoves, 1) : move_tasks(m)
    \/ \E t \in {"t1"} : move_task(t, "p1", "p2")
    \/ \E t \in {"t1"} : set_task_parent(t, "p1", "t2")
    \/ \E t \in {"t1"} : unset_task_parent(t, "p1", "t2")

ProjectMutationNext ==
    \/ \E a \in FewListArgs(ProjectAddItems),
          u \in FewListArgs(ProjectUpdateItems),
          d \in FewListArgs(ProjectIds) : batch_projects(a, u, d)
    \/ \E a \in CreateProjectArgs : create_project(a)
    \/ \E a \in UpdateProjectArgs : update_project(a)
    \/ \E p \in {"p1"} : delete_project(p)
    \/ \E a \in FewListArgs(GroupAddItems), u \in FewListArgs(GroupUpdateItems),
          d \in FewListArgs(GroupIds) : batch_project_groups(a, u, d)
    \/ \E n \in {"G1"} : create_project_group(n)
    \/ \E g \in {"g1"} : update_project_group(g, "G1")
    \/ \E g \in GroupIds : delete_project_group(g)

TagMutationNext ==
    \/ \E a \in FewListArgs(TagAddItems), u \in FewListArgs(TagUpdateItems) :
         batch_tags(a, u)
    \/ \E a \in CreateTagArgs : create_tag(a)
    \/ \E a \in UpdateTagArgs : update_tag(a)
    \/ \E n \in TagNames : rename_tag(n, "New Label")
    \/ \E n \in TagNames : delete_tag(n)
    \/ \E n \in {"work"} : merge_tags(n, "home")

Next ==
    \/ AuthNext
    \/ ReadNext
    \/ TaskMutationNext
    \/ ProjectMutationNext
    \/ TagMutationNext

\* the whole client, each method called with a few arguments
Spec == Init /\ [][Next]_vars

\* the batch methods, called with every list up to MaxBatchLen
BatchNext ==
    \/ set_session(ShapeToken)
    \/ Return
    \/ \E a \in WhenIdle(ListArgs(TaskAddItems)),
          u \in ListArgs(TaskUpdateItems),
          d \in ListArgs(TaskDeleteItems) : batch_tasks(a, u, d)
    \/ \E a \in WhenIdle(ListArgs(ProjectAddItems)),
          u \in ListArgs(ProjectUpdateItems),
          d \in ListArgs(ProjectIds) : batch_projects(a, u, d)
    \/ \E a \in WhenIdle(ListArgs(GroupAddItems)),
          u \in ListArgs(GroupUpdateItems),
          d \in ListArgs(GroupIds) : batch_project_groups(a, u, d)
    \/ \E a \in WhenIdle(ListArgs(TagAddItems)),
          u \in ListArgs(TagUpdateItems) : batch_tags(a, u)

BatchSpec == Init /\ [][BatchNext]_vars

\* the single-task methods, called with every set of up to MaxSupplied
\* optional arguments
TaskNext ==
    \/ set_session(ShapeToken)
    \/ Return
    \/ \E a \in WhenIdle(CreateTaskArgs) : create_task(a)
    \/ \E a \in WhenIdle(UpdateTaskArgs) : update_task(a)
    \/ \E p \in ProjectIds, t \in TaskIds : delete_task(p, t)
    \/ \E t \in TaskIds, p \in ProjectIds, q \in TaskIds :
         set_task_parent(t, p, q)
    \/ \E t \in TaskIds, p \in ProjectIds, q \in TaskIds :
         unset_task_parent(t, p, q)

TaskSpec == Init /\ [][TaskNext]_vars
\* the tool layer over one task held by the service
ToolNext ==
    \/ set_session(ShapeToken)
    \/ Return
    \/ \E params \in UpdateParams : ticktick_update_task_read(params)
    \/ ticktick_update_task_write
    \/ tool_return
    \/ \E f \in TaskFields : other_client_update(f)

ToolSpec == Init /\ [][ToolNext]_vars

\* the move methods, called with every list of moves up to MaxBatchLen
MoveNext ==
    \/ set_session(ShapeToken)
    \/ Return
    \/ \E m \in WhenIdle(BoundedSeq(TaskMoves, MaxBatchLen)) : move_tasks(m)
    \/ \E t \in WhenIdle(TaskIds), f \in ProjectIds, p \in ProjectIds :
         move_task(t, f, p)

MoveSpec == Init /\ [][MoveNext]_vars

\* requests under every session a caller can install
HeaderNext ==
    \/ \E tok \in HeaderTokens : set_session(tok)
    \/ sign_out
    \/ Return
    \/ sync
    \/ get_user_status
    \/ get_user_profile
    \/ get_user_statistics
    \/ \E n \in TagNames : delete_tag(n)

HeaderSpec == Init /\ [][HeaderNext]_vars

\* the lifespan of the server, with the tools called while it serves
LifeNext ==
    \/ lifespan_from_settings
    \/ lifespan_connect
    \/ \E how \in ServerExits : lifespan_exit(how)
    \/ lifespan_except
    \/ lifespan_finally
    \/ life.pc = "serving" /\ ToolNext

LifeSpec == Init /\ [][LifeNext]_vars

\* tools whose client call returns or raises
ErrorNext ==
    \/ \E t \in TaskIds, ends \in ClientCallEnds :
         ticktick_complete_task(t, ends)
    \/ \E t \in TaskIds, ends \in ClientCallEnds :
         ticktick_delete_task(t, ends)
    \/ tool_return

ErrorSpec == Init /\ [][ErrorNext]_vars

\* responses of every length around the limit
TruncateNext ==
    \/ \E result \in Texts : tool_truncates(result)
    \/ tool_return

TruncateSpec == Init /\ [][TruncateNext]_vars

\* the two task tools, called with every priority string
PriorityNext ==
    \/ set_session(ShapeToken)
    \/ Return
    \/ \E params \in CreateParams : ticktick_create_task(params)
    \/ \E params \in PriorityUpdateParams : ticktick_update_task_read(params)
    \/ ticktick_update_task_write
    \/ tool_return
    \/ \E f \in {"priority"} : other_client_update(f)

PrioritySpec == Init /\ [][PriorityNext]_vars

\* tag renames against the service that holds the tags
TagNext ==
    \/ set_session(ShapeToken)
    \/ Return
    \/ \E n \in WhenIdle(RenameOldNames), cs \in Labels :
         served_rename_tag(n, Str(cs))

TagSpec == Init /\ [][TagNext]_vars

\* requests in flight while the session is installed, replaced and removed
FlightNext ==
    \/ \E tok \in FlightTokens : set_session(tok)
    \/ sign_out
    \/ Return
    \/ \E r \in Flights : start_request(r)
    \/ \E r \in Flights : finish_request(r)

FlightSpec == Init /\ [][FlightNext]_vars

-----------------------------------------------------------------------------
(* Properties *)

\* the methods that change the auth state, and the methods that issue requests
AuthOps == {"authenticate", "authenticate_2fa", "set_session", "sign_out"}
MutationOps ==
    {"batch_tasks", "create_task", "update_task", "delete_task", "move_tasks",
     "move_task", "set_task_parent", "unset_task_parent", "batch_projects",
     "create_project", "update_project", "delete_project",
     "batch_project_groups", "create_project_group", "update_project_group",
     "delete_project_group", "batch_tags", "create_tag", "update_tag",
     "rename_tag", "delete_tag", "merge_tags"}
IsRequestCall == ~Idle /\ call.op \notin AuthOps

\* the auth state is Authenticated and its token is not expired, read off
\* the state itself
StateAuthenticated ==
    authState.tag = "Authenticated"
      /\ (authState.token.expiry = NoExpiry \/ now < authState.token.expiry)

\* C1: every read and every mutation method invoked while the auth state is
\* not Authenticated (no session held, or the held token expired) ends with
\* AuthenticationError, and no request is sent.
C1_FailFast ==
    (IsRequestCall /\ ~StateAuthenticated)
      => (outcome = "AuthenticationError" /\ sent = << >>)

\* a mutation invoked with an expired token, and refused
C1_Witness ==
    /\ call.op \in MutationOps
    /\ authState.tag = "Authenticated"
    /\ ~StateAuthenticated
    /\ outcome = "AuthenticationError"
    /\ sent = << >>

C3_Retry2fa ==
    [][ (call'.op = "authenticate_2fa" /\ PendingWith(call'.args.auth_id))
          => IF call'.args.code_right
             THEN /\ outcome' = "ok"
                  /\ authState'.tag = "Authenticated"
                  /\ is_authenticated'
             ELSE /\ outcome' = "AuthenticationError"
                  /\ authState' = authState
                  /\ IsNone(session')
                  /\ ~is_authenticated' ]_vars

\* the right code accepted after MaxFailed rejected codes for the same authId
C3_Witness ==
    /\ call.op = "authenticate_2fa"
    /\ outcome = "ok"
    /\ failed2fa = MaxFailed
    /\ authState.tag = "Authenticated"

\* a request was sent and the service rejected the session on it
ServiceRejectedSession ==
    IsRequestCall /\ sent # << >> /\ outcome = "AuthenticationError"

\* C4: after a sign-out, and after a request on which the service rejected
\* the session, the state is Unauthenticated: the session is none and
\* is_authenticated is false.
C4_SignOutOrFatalError ==
    (call.op = "sign_out" \/ ServiceRejectedSession)
      => (authState = Unauthenticated /\ IsNone(session) /\ ~is_authenticated)

\* the list a batch method is to send for a list argument
Given(x) == IF IsNone(x) THEN << >> ELSE x.list

BatchOps ==
    {"batch_tasks", "batch_projects", "batch_project_groups", "batch_tags"}
BatchItems(op, k) ==
    CASE op = "batch_tasks" /\ k = "add" -> TaskAddItems
      [] op = "batch_tasks" /\ k = "update" -> TaskUpdateItems
      [] op = "batch_tasks" /\ k = "delete" -> TaskDeleteItems
      [] op = "batch_projects" /\ k = "add" -> ProjectAddItems
      [] op = "batch_projects" /\ k = "update" -> ProjectUpdateItems
      [] op = "batch_projects" /\ k = "delete" -> ProjectIds
      [] op = "batch_project_groups" /\ k = "add" -> GroupAddItems
      [] op = "batch_project_groups" /\ k = "update" -> GroupUpdateItems
      [] op = "batch_project_groups" /\ k = "delete" -> GroupIds
      [] op = "batch_tags" /\ k = "add" -> TagAddItems
      [] op = "batch_tags" /\ k = "update" -> TagUpdateItems
IsListOf(v, S) == v \in BoundedSeq(S, MaxBatchLen)

\* C5, as stated: the body of every batch request, tags included, has the
\* three keys add, update and delete, each a list.
C5_AsStated ==
    (call.op \in BatchOps /\ sent # << >>)
      => LET b == sent[1].body
         IN  /\ {"add", "update", "delete"} \subseteq DOMAIN b
             /\ \A k \in {"add", "update", "delete"} :
                  IsListOf(b[k], BatchItems(call.op, k))

\* C5, amended: the body of a task, project or project-group batch has the
\* three keys add, update and delete; the body of a tag batch has exactly add
\* and update and no delete; every key present is a list, possibly empty.
C5_BatchKeys ==
    (call.op \in BatchOps /\ sent # << >>)
      => LET b == sent[1].body
             keys == IF call.op = "batch_tags" THEN {"add", "update"}
                     ELSE {"add", "update", "delete"}
         IN  /\ keys \subseteq DOMAIN b
             /\ call.op = "batch_tags" => DOMAIN b = keys
             /\ call.op \in {"batch_projects", "batch_project_groups"}
                  => DOMAIN b = keys
             /\ \A k \in keys : IsListOf(b[k], BatchItems(call.op, k))

\* a project batch called with no argument at all still sends three lists
C5_Witness ==
    /\ call.op = "batch_projects"
    /\ IsNone(call.args.add) /\ IsNone(call.args.update)
    /\ IsNone(call.args.delete)
    /\ Len(sent) = 1
    /\ sent[1].body = [add |-> << >>, update |-> << >>, delete |-> << >>]

\* C6: batch_tasks sends one POST to /batch/task (none when the call is
\* refused for lack of a session) whose body is the caller's add, update and
\* delete lists, unchanged and in order, an omitted one as the empty list,
\* plus the three attachment lists, always empty.
C6_BatchTasksBody ==
    call.op = "batch_tasks"
      => /\ Len(sent) = IF StateAuthenticated THEN 1 ELSE 0
         /\ \A i \in DOMAIN sent :
              /\ sent[i].method = "POST"
              /\ sent[i].path = "/batch/task"
              /\ sent[i].body =
                   [add |-> Given(call.args.add),
                    update |-> Given(call.args.update),
                    delete |-> Given(call.args.delete),
                    addAttachments |-> << >>,
                    updateAttachments |-> << >>,
                    deleteAttachments |-> << >>]

\* two different tasks to add, update omitted, something to delete
C6_Witness ==
    /\ call.op = "batch_tasks"
    /\ Len(sent) = 1
    /\ Len(Given(call.args.add)) = 2
    /\ call.args.add.list[1] # call.args.add.list[2]
    /\ IsNone(call.args.update)
    /\ Given(call.args.delete) # << >>
    /\ sent[1].body.add = call.args.add.list

\* the wire key of an argument of create_task / update_task
WireKey(k) ==
    CASE k = "start_date" -> "startDate"
      [] k = "due_date" -> "dueDate"
      [] k = "time_zone" -> "timeZone"
      [] k = "is_all_day" -> "isAllDay"
      [] k = "repeat_flag" -> "repeatFlag"
      [] k = "sort_order" -> "sortOrder"
      [] k = "parent_id" -> "parentId"
      [] k = "completed_time" -> "completedTime"
      [] k = "project_id" -> "projectId"
      [] k = "task_id" -> "id"
      [] OTHER -> k
IsSparse(rec, args, Required, Optional) ==
    LET supplied == {k \in Optional : args[k] # None}
    IN  /\ DOMAIN rec = {WireKey(k) : k \in Required \cup supplied}
        /\ \A k \in Required \cup supplied : rec[WireKey(k)] = args[k]
        /\ \A key \in DOMAIN rec : rec[key] # None

\* C7: the record create_task / update_task sends has exactly the required
\* keys and the wire keys of the arguments supplied (not None), each with the
\* value supplied; no key for an omitted argument, no null value.
C7_SparseRecords ==
    /\ (call.op = "create_task" /\ sent # << >>)
         => /\ Len(sent[1].body.add) = 1
            /\ IsSparse(sent[1].body.add[1], call.args,
                        CreateTaskRequired, CreateTaskOptional)
    /\ (call.op = "update_task" /\ sent # << >>)
         => /\ Len(sent[1].body.update) = 1
            /\ IsSparse(sent[1].body.update[1], call.args,
                        UpdateTaskRequired, UpdateTaskOptional)

\* update_task with the title alone sends id, projectId and title
C7_Witness ==
    /\ call.op = "update_task"
    /\ Len(sent) = 1
    /\ call.args.title # None
    /\ DOMAIN sent[1].body.update[1] = {"id", "projectId", "title"}

\* C8: create_task, with or without parent_id, sends nothing but the
\* /batch/task request, which carries parentId as given; a request to
\* /batch/taskParent with a parentId comes from set_task_parent alone, and
\* is the single record {taskId, projectId, parentId} of its arguments.
C8_NoParentCallOnCreate ==
    /\ call.op = "create_task"
         => /\ Len(sent) <= 1
            /\ \A i \in DOMAIN sent :
                 /\ sent[i].path = "/batch/task"
                 /\ call.args.parent_id # None
                      => sent[i].body.add[1]["parentId"] = call.args.parent_id
    /\ \A i \in DOMAIN sent :
         (sent[i].path = "/batch/taskParent"
            /\ "parentId" \in DOMAIN sent[i].body[1])
           => /\ call.op = "set_task_parent"
              /\ sent[i].body = << [taskId |-> call.args.task_id,
                                    projectId |-> call.args.project_id,
                                    parentId |-> call.args.parent_id] >>
    /\ (call.op = "set_task_parent" /\ StateAuthenticated)
         => /\ Len(sent) = 1
            /\ sent[1].path = "/batch/taskParent"

\* a task created with a parent_id, successfully, by one request
C8_Witness ==
    /\ call.op = "create_task"
    /\ call.args.parent_id # None
    /\ Len(sent) = 1
    /\ outcome = "ok"

\* C9: every mutation method puts exactly one request on the wire per
\* invocation (none when the call is refused for lack of a session),
\* whether the service answers it with success or with a failure.
C9_OneRequestPerMutation ==
    call.op \in MutationOps
      => Len(sent) = IF StateAuthenticated THEN 1 ELSE 0

\* a project group deletion that succeeded, by its one request
C9_Witness ==
    /\ call.op = "delete_project_group"
    /\ outcome = "ok"
    /\ Len(sent) = 1
    /\ sent[1].path = "/batch/projectGroup"

\* C10: create_task with a repeat_flag and no start_date ends with
\* ConfigurationError and sends nothing; no /batch/task request adds a task
\* that has repeatFlag without startDate.
C10_RecurrenceNeedsStartDate ==
    /\ (call.op = "create_task" /\ StateAuthenticated
          /\ Truthy(call.args.repeat_flag) /\ call.args.start_date = None)
         => (outcome = "ConfigurationError" /\ sent = << >>)
    /\ \A i \in DOMAIN sent :
         sent[i].path = "/batch/task"
           => \A j \in DOMAIN sent[i].body.add :
                ("repeatFlag" \in DOMAIN sent[i].body.add[j]
                   /\ Truthy(sent[i].body.add[j]["repeatFlag"]))
                  => "startDate" \in DOMAIN sent[i].body.add[j]

\* a request of the running method was sent and did not succeed
RequestFailed == \E i \in DOMAIN sent : sent[i].response # "ok"
TypedErrors == {"AuthenticationError", "ServerError", "UnknownError"}

\* C11: whenever the request of a client method fails (network failure,
\* non-2xx answer), the method ends with a typed error, never with a normal
\* return value.
C11_NoSuppressedFailure ==
    (IsRequestCall /\ RequestFailed) => outcome \in TypedErrors

\* the headers _get_auth_headers is to build from the one token t
HeadersOfToken(t) ==
    ("User-Agent" :> V2_USER_AGENT) @@ ("X-Device" :> x_device_header)
      @@ ("Cookie" :> cookie_join(t.cookies))

\* C12: the headers of every request in flight were built from exactly one
\* token, the session current when they were built, whatever the session
\* has been replaced with or removed since; and the construction of the
\* headers never fails (a request fails at its start only for lack of a
\* valid session).
C12_HeadersFromOneToken ==
    \A r \in Flights :
      /\ flight[r].pc = "awaiting"
           => /\ flight[r].built_from \in FlightTokens
              /\ flight[r].headers = HeadersOfToken(flight[r].built_from)
      /\ flight[r].pc = "failed"
           => flight[r].error = "AuthenticationError"

\* two requests in flight built from different tokens, the session removed
\* since
C12_Witness ==
    /\ flight[1].pc = "awaiting"
    /\ flight[2].pc = "awaiting"
    /\ flight[1].built_from # flight[2].built_from
    /\ flight[1].headers # flight[2].headers
    /\ IsNone(session)

\* C13: a set_session(token) step leaves the session exactly the supplied
\* token, whatever was held before, with no step in between in which the
\* session is none; the token held before is untouched, so the requests in
\* flight keep the headers built from it; and a request started afterwards
\* carries the cookies of the session then current.
C13_SetSessionAtomic ==
    [][ /\ (call'.op = "set_session" /\ Idle)
             => /\ session' = call'.args.session
                /\ authState' = Authenticated(call'.args.session)
                /\ is_authenticated'
                /\ flight' = flight
        /\ \A r \in Flights :
             (flight[r].pc = "idle" /\ flight'[r].pc = "awaiting")
               => /\ flight'[r].built_from = session
                  /\ flight'[r].headers["Cookie"]
                       = cookie_join(session.cookies) ]_vars

\* a session replaced by another while a request built from the first is
\* in flight
C13_Witness ==
    /\ call.op = "set_session"
    /\ session = call.args.session
    /\ flight[1].pc = "awaiting"
    /\ flight[1].built_from # session
    /\ flight[1].headers = HeadersOfToken(flight[1].built_from)

\* C14: no step changes the device id, and every request sent carries the
\* device header made of the constant platform and version and of that
\* device id; so any two requests of one client carry the same header,
\* whatever authenticate, authenticate_2fa, set_session or requests ran in
\* between.
C14_DeviceHeaderStable ==
    [][ /\ device_id' = device_id
        /\ \A i \in DOMAIN sent' :
             sent'[i].headers["X-Device"] =
               [keys |-> <<"platform", "version", "id">>,
                dict |-> [platform |-> "web", version |-> 6430,
                          id |-> device_id]] ]_vars

\* a request sent in a session obtained through 2FA after rejected codes
C14_Witness ==
    /\ IsRequestCall
    /\ sent # << >>
    /\ failed2fa = MaxFailed
    /\ sent[1].headers["X-Device"].dict.id = device_id

\* C15: a step of any operation other than authenticate, authenticate_2fa,
\* set_session and sign-out (sync, the reads, the batch and single mutations,
\* verify_authentication, successful or failed) leaves the auth state, the
\* held session token and the device id unchanged.
C15_OnlyAuthOpsChangeAuthState ==
    [][ call'.op \notin AuthOps
          => /\ authState' = authState
             /\ session' = session
             /\ device_id' = device_id ]_vars

\* the service rejected the session on the health check, and it is still held
C15_Witness ==
    /\ call.op = "verify_authentication"
    /\ outcome = "AuthenticationError"
    /\ RequestFailed
    /\ authState.tag = "Authenticated"
    /\ ~IsNone(session)

\* C16: is_authenticated is true exactly when the auth state is
\* Authenticated and the token has no expiry hint or the hint is still in
\* the future; it is false in Unauthenticated, in PendingTwoFactor, and for
\* a token whose expiry has been reached.
C16_IsAuthenticated ==
    /\ is_authenticated <=>
         (authState.tag = "Authenticated"
            /\ (authState.token.expiry = NoExpiry
                  \/ now < authState.token.expiry))
    /\ authState.tag \in {"Unauthenticated", "PendingTwoFactor"}
         => ~is_authenticated

\* a token held past its expiry: the state is Authenticated, the answer false
C16_Witness ==
    /\ authState.tag = "Authenticated"
    /\ authState.token.expiry # NoExpiry
    /\ now >= authState.token.expiry
    /\ ~is_authenticated

\* C17: when ticktick_update_task writes, every field not supplied in params
\* keeps the value the service holds at that moment, also when another
\* client updated the task between the tool's read and its write; and the
\* record written holds the task's keys and the supplied fields only.
C17_UpdatePreservesOthers ==
    [][ (tool.pc = "read" /\ tool'.pc = "done" /\ tool'.outcome = "ok")
          => /\ \A f \in TaskFields :
                  tool.params[f] = None
                    => service'.task[f] = service.task[f]
             /\ DOMAIN tool'.written =
                  {"id", "project_id"}
                    \cup {f \in TaskFields : tool.params[f] # None} ]_vars

\* C19: rename_tag(old, new) answered with success, for a tag called old and
\* a new name no other tag has: afterwards the listing has no tag called old
\* and exactly one called new, with the colour and the parent the old tag
\* had; its name and label changed together, and no other tag changed.
C19_RenameRoundTrip ==
    [][ (/\ Idle
         /\ call'.op = "rename_tag"
         /\ outcome' = "ok"
         /\ HasTag(service.tags, call'.args.old_name)
         /\ service_tag_name(call'.args.new_label) # call'.args.old_name
         /\ ~HasTag(service.tags, service_tag_name(call'.args.new_label)))
        => LET old_name == call'.args.old_name
               new_name == service_tag_name(call'.args.new_label)
               before == CHOOSE t \in service.tags : t.name = old_name
               named == {t \in service'.tags : t.name = new_name}
           IN  /\ ~HasTag(service'.tags, old_name)
               /\ Cardinality(named) = 1
               /\ \A t \in named : /\ t.color = before.color
                                    /\ t.parent = before.parent
                                    /\ t.label = call'.args.new_label
               /\ service'.tags \ named = service.tags \ {before} ]_vars
C19_Witness ==
    /\ call.op = "rename_tag"
    /\ outcome = "ok"
    /\ call.args.old_name = "work"
    /\ ~HasTag(service.tags, "work")
    /\ \E t \in service.tags :
         t.name = "mytag" /\ t.label = "My Tag" /\ t.color = "#FF0000"

\* C20: the tag operations use disjoint endpoints. Every request create_tag
\* and update_tag send is a POST to /batch/tag; every request rename_tag and
\* merge_tags send is a PUT, to /tag/rename and to /tag/merge, whose body is
\* exactly {name, newName} (the tag is named, no id is carried); every
\* request delete_tag sends is a DELETE to /tag with the name as its only
\* query parameter and no body. Each of them sends one request at most, so
\* rename, merge and delete never reach the batch endpoint.
C20_TagEndpoints ==
    /\ call.op \in {"create_tag", "update_tag", "rename_tag", "merge_tags",
                    "delete_tag"} => Len(sent) <= 1
    /\ \A i \in DOMAIN sent :
         /\ call.op \in {"create_tag", "update_tag"}
              => /\ sent[i].method = "POST"
                 /\ sent[i].path = "/batch/tag"
         /\ call.op = "rename_tag"
              => /\ sent[i].method = "PUT"
                 /\ sent[i].path = "/tag/rename"
                 /\ sent[i].body = [name |-> call.args.old_name,
                                    newName |-> call.args.new_label]
         /\ call.op = "merge_tags"
              => /\ sent[i].method = "PUT"
                 /\ sent[i].path = "/tag/merge"
                 /\ sent[i].body = [name |-> call.args.source_name,
                                    newName |-> call.args.target_name]
         /\ call.op = "delete_tag"
              => /\ sent[i].method = "DELETE"
                 /\ sent[i].path = "/tag"
                 /\ sent[i].params = [name |-> call.args.name]
                 /\ sent[i].body = None
C20_Witness ==
    /\ call.op = "delete_tag"
    /\ Len(sent) = 1
    /\ sent[1].response = "ok"
    /\ sent[1].method = "DELETE"

\* C21: move_tasks sends one request, a POST to /batch/taskProject, whose
\* body is the sequence of moves it was given: same length, same order, and
\* no add/update/delete envelope around it. move_task sends the one-element
\* sequence {taskId, fromProjectId, toProjectId} built from its arguments.
C21_MovesAsGiven ==
    /\ call.op \in {"move_tasks", "move_task"} => Len(sent) <= 1
    /\ \A i \in DOMAIN sent :
         /\ call.op \in {"move_tasks", "move_task"}
              => /\ sent[i].method = "POST"
                 /\ sent[i].path = "/batch/taskProject"
         /\ call.op = "move_tasks"
              => /\ DOMAIN sent[i].body = 1..Len(call.args.moves)
                 /\ \A k \in DOMAIN call.args.moves :
                      sent[i].body[k] = call.args.moves[k]
         /\ call.op = "move_task"
              => /\ DOMAIN sent[i].body = {1}
                 /\ sent[i].body[1] =
                      [taskId |-> call.args.task_id,
                       fromProjectId |-> call.args.from_project_id,
                       toProjectId |-> call.args.to_project_id]
C21_Witness ==
    /\ call.op = "move_tasks"
    /\ Len(call.args.moves) = 2
    /\ call.args.moves[1] # call.args.moves[2]
    /\ Len(sent) = 1
    /\ sent[1].response = "ok"

\* C22: set_task_parent and unset_task_parent each send one request, a POST
\* to /batch/taskParent with a one-element sequence: the set record has
\* exactly the keys taskId, projectId, parentId and the unset record exactly
\* taskId, projectId, oldParentId, with the values of the arguments.
C22_ParentRecords ==
    /\ call.op \in {"set_task_parent", "unset_task_parent"} => Len(sent) <= 1
    /\ \A i \in DOMAIN sent :
         /\ call.op \in {"set_task_parent", "unset_task_parent"}
              => /\ sent[i].method = "POST"
                 /\ sent[i].path = "/batch/taskParent"
                 /\ DOMAIN sent[i].body = {1}
         /\ call.op = "set_task_parent"
              => /\ DOMAIN sent[i].body[1] = {"taskId", "projectId", "parentId"}
                 /\ sent[i].body[1].taskId = call.args.task_id
                 /\ sent[i].body[1].projectId = call.args.project_id
                 /\ sent[i].body[1].parentId = call.args.parent_id
         /\ call.op = "unset_task_parent"
              => /\ DOMAIN sent[i].body[1] =
                      {"taskId", "projectId", "oldParentId"}
                 /\ sent[i].body[1].taskId = call.args.task_id
                 /\ sent[i].body[1].projectId = call.args.project_id
                 /\ sent[i].body[1].oldParentId = call.args.old_parent_id
C22_Witness ==
    /\ call.op = "unset_task_parent"
    /\ Len(sent) = 1
    /\ sent[1].response = "ok"
    /\ sent[1].body[1].oldParentId = "t2"
    /\ sent[1].body[1].taskId = "t1"

\* C23: create_task, update_task and delete_task each send one batch with a
\* single element: one element in the add, update or delete list
\* respectively and the other two lists empty; the element of delete_task is
\* {projectId, taskId} with the values of its project_id and task_id.
C23_SingleElementBatch ==
    /\ call.op \in {"create_task", "update_task", "delete_task"}
         => Len(sent) <= 1
    /\ \A i \in DOMAIN sent :
         /\ call.op \in {"create_task", "update_task", "delete_task"}
              => /\ sent[i].method = "POST"
                 /\ sent[i].path = "/batch/task"
                 /\ Len(sent[i].body.add) =
                      (IF call.op = "create_task" THEN 1 ELSE 0)
                 /\ Len(sent[i].body.update) =
                      (IF call.op = "update_task" THEN 1 ELSE 0)
                 /\ Len(sent[i].body.delete) =
                      (IF call.op = "delete_task" THEN 1 ELSE 0)
         /\ call.op = "delete_task"
              => sent[i].body.delete[1] =
                   [projectId |-> call.args.project_id,
                    taskId |-> call.args.task_id]
C23_Witness ==
    /\ call.op = "delete_task"
    /\ call.args.project_id = "p2"
    /\ call.args.task_id = "t1"
    /\ Len(sent) = 1
    /\ sent[1].response = "ok"

\* the Cookie header expected for the cookies of a session, written out
ExpectedCookie(cookies) ==
    CASE cookies = << <<"t", "c1">> >> -> "t=c1"
      [] cookies = << <<"t", "c2">>, <<"AWSALB", "lb2">> >>
           -> "t=c2; AWSALB=lb2"

C26_VerifyAuthentication ==
    [][ (Idle /\ call'.op = "verify_authentication")
        => IF ~is_authenticated
           THEN sent' = << >> /\ outcome' = "AuthenticationError"
           ELSE /\ Len(sent') = 1
                /\ sent'[1].method = "GET"
                /\ sent'[1].path = "/batch/check/0"
                /\ outcome' = CASE sent'[1].response = "ok" -> "True"
                                [] sent'[1].response = "401"
                                     -> "AuthenticationError"
                                [] OTHER -> "False" ]_vars
C26_Witness ==
    /\ call.op = "verify_authentication"
    /\ Len(sent) = 1
    /\ sent[1].response = "network"
    /\ outcome = "False"

\* C27: disconnect() is called exactly once on every exit path on which
\* from_settings() returned a client (normal shutdown, failure of connect(),
\* exception while serving) and never when from_settings() itself failed; a
\* startup failure reaches the caller; the client is yielded only after
\* connect() has succeeded.
C27_DisconnectOnce ==
    /\ life.disconnects <= 1
    /\ life.disconnects = 1 => life.client
    /\ life.pc = "done" => life.disconnects = (IF life.client THEN 1 ELSE 0)
    /\ (life.pc = "done" /\ ~life.connected) => life.raised = "startup"
    /\ life.yielded => life.client /\ life.connected
C27_Witness ==
    /\ life.pc = "done"
    /\ life.client
    /\ ~life.connected
    /\ life.disconnects = 1
    /\ life.raised = "startup"

\* the keywords handle_error is to test, in this order, and the title each
\* one is to give
ErrorKeywords ==
    << "Authentication", "NotFound", "Validation", "Configuration",
       "RateLimit", "Quota", "Forbidden", "Server" >>
FirstKeyword(error_type) ==
    IF \E i \in DOMAIN ErrorKeywords : Contains(ErrorKeywords[i], error_type)
    THEN ErrorKeywords[CHOOSE i \in DOMAIN ErrorKeywords :
            /\ Contains(ErrorKeywords[i], error_type)
            /\ \A j \in 1..(i - 1) : ~Contains(ErrorKeywords[j], error_type)]
    ELSE "none"
MessageKind(kw) ==
    CASE kw = "Authentication" -> "Authentication failed"
      [] kw = "NotFound" -> "Resource not found"
      [] kw = "Validation" -> "Invalid input"
      [] kw = "Configuration" -> "Configuration error"
      [] kw = "RateLimit" -> "Rate limit exceeded"
      [] kw = "Quota" -> "Account quota exceeded"
      [] kw = "Forbidden" -> "Access denied"
      [] kw = "Server" -> "TickTick server error"
      [] OTHER -> "Unexpected error"
\* the title starts with the kind
HasKind(title, kind) == Len(title) >= Len(kind) /\ SubSeq(title, 1, Len(kind)) = kind

BlankLinesBefore(text, at) ==
    {p \in 0..(at - 2) \cap text.newlines : (p + 1) \in text.newlines}
NewlinesBefore(text, at) == 0..(at - 1) \cap text.newlines
IsLast(p, S) == p \in S /\ \A q \in S : q <= p

\* C29: truncate_response returns its input unchanged when the input has at
\* most CHARACTER_LIMIT characters; otherwise it returns a prefix of the
\* input of at most CHARACTER_LIMIT - 500 characters, cut at the last blank
\* line before that position, else at the last newline, else at that
\* position, followed by the truncation notice, and the whole result has at
\* most CHARACTER_LIMIT characters.
C29_Truncation ==
    (tool.pc = "done" /\ "truncated" \in DOMAIN tool)
      => LET text == tool.result
             out == tool.truncated
             at == 25000 - 500
         IN  IF text.len <= 25000
             THEN out.kept = text.len /\ out.message = ""
             ELSE /\ out.kept >= 0
                  /\ out.kept <= at
                  /\ out.kept <= text.len
                  /\ IF BlankLinesBefore(text, at) # {}
                     THEN IsLast(out.kept, BlankLinesBefore(text, at))
                     ELSE IF NewlinesBefore(text, at) # {}
                     THEN IsLast(out.kept, NewlinesBefore(text, at))
                     ELSE out.kept = at
                  /\ out.message = truncation_message
                  /\ Len(out.message) = 274
                  /\ out.kept + Len(out.message) <= 25000
C29_Witness ==
    /\ tool.pc = "done"
    /\ "truncated" \in DOMAIN tool
    /\ tool.result.len = 25001
    /\ tool.result.newlines = {}
    /\ tool.truncated.kept = 24500
    /\ Len(tool.truncated.message) > 0

\* the priority enum of the service, and the value of each known string
PriorityEnum == {0, 1, 3, 5}
KnownPriority(p) ==
    CASE p = "none" -> 0 [] p = "low" -> 1 [] p = "medium" -> 3
      [] p = "high" -> 5 [] p = "0" -> 0 [] p = "1" -> 1 [] p = "3" -> 3
      [] p = "5" -> 5 [] OTHER -> -1

\* C30: the priority the tools hand to the client is within {0, 1, 3, 5}.
\* ticktick_create_task hands over no priority when none or an empty string
\* was given, the value of a known name or digit string, and 0 for any
\* other string; ticktick_update_task assigns the value of a known string
\* and leaves the priority of the task it read unchanged otherwise.
C30_PriorityInEnum ==
    [][ /\ (tool'.pc = "done" /\ "handed" \in DOMAIN tool')
           => LET p == tool'.params.priority
                  h == tool'.handed.priority
              IN  IF p \in {None, ""} THEN IsNone(h)
                  ELSE /\ ~IsNone(h)
                       /\ h.int \in PriorityEnum
                       /\ h.int = (IF KnownPriority(p) # -1
                                   THEN KnownPriority(p) ELSE 0)
        /\ (tool.pc = "idle" /\ tool'.pc = "read")
           => LET p == tool'.params.priority
              IN  /\ tool'.task.priority \in PriorityEnum
                  /\ tool'.task.priority =
                       (IF p # None /\ KnownPriority(p) # -1
                        THEN KnownPriority(p) ELSE service.task.priority)
        /\ (tool.pc = "read" /\ tool'.pc = "done" /\ tool'.outcome = "ok")
           => tool'.written.priority \in PriorityEnum ]_vars
C30_Witness ==
    /\ tool.pc = "read"
    /\ tool.params.priority = "urgent"
    /\ tool.task.priority = 3
    /\ service.task.priority = 3

====
